---- MODULE Spec2Model ----
(***************************************************************************)
(* Work-Shot social output layer: crop-advice validation (smartCrop.ts),   *)
(* the getSmartCrop call with its timeout race, the compositor             *)
(* (composer.ts), the crossfade generator (crossfade.ts) and runSocial     *)
(* (social/index.ts): its preconditions, the per-platform loop and the     *)
(* file operations it makes.                                               *)
(***************************************************************************)
EXTENDS Integers, Sequences, FiniteSets, TLC

VARIABLES
    vpc,        \* validation harness: "input" before parseAndValidate ran, "validated" after
    vin,        \* validation harness: arguments of parseAndValidate (text, bw, bh, aw, ah, pw, ph)
    vout,       \* validation harness: value returned by parseAndValidate
    cpc,        \* compositor harness: "input" before composeSocialImage ran, "composed" after
    cin,        \* compositor harness: platform spec, source sizes, crop advice
    cout,       \* compositor harness: what composeSocialImage produced
    gpc,        \* crossfade harness: "input" before generateCrossfadeGif ran, "settled" after
    gin,        \* crossfade harness: options and the behaviour of the encoder and the disk
    gout,       \* crossfade harness: what generateCrossfadeGif did and returned
    env,        \* process environment and job folder seen by runSocial
    platforms,  \* runSocial argument: the platform names, in caller order
    pc,         \* runSocial position
    idx,        \* runSocial: index of the platform being processed (for-of loop)
    scpc,       \* getSmartCrop position (await points) of the current iteration
    calls,      \* per iteration: the service call, the timer and the withTimeout promise
    smartCrop,  \* runSocial local: value getSmartCrop resolved to in this iteration
    composed,   \* per iteration: the crop advice of every composeSocialImage invocation
    files,      \* files present under output/social/, as <<platform, file>>
    fsops,      \* file operations of the runSocial call so far, in order
    results,    \* runSocial local: SocialOutput entries pushed so far
    gifResult,  \* runSocial local: what the last generateCrossfadeGif call resolved to
    outcome,    \* how the runSocial promise settled: "none", "returned" or the error thrown
    lpc,        \* registry harness position
    lin,        \* registry harness: the name looked up and the configured platform list
    lout,       \* registry harness: what getAdapter and validateSocialPlatforms did
    bpc,        \* runBotSocial position
    bout,       \* runBotSocial: the BotSocialResult its promise resolved to
    disk,       \* contents of image, transition.gif and manifest.json per platform directory
    runs,       \* number of runSocial calls made on the job so far
    up,         \* bot: the process is running (reconciled, polling, checker armed)
    config,     \* bot: config.socialPlatforms
    session,    \* bot: the chat_sessions row of the chat, pending service and notes included
    jobs,       \* bot: the jobs rows, by id, with the composite of each job folder
    nmsgs,      \* bot: inbound photo messages logged in telegram_messages (ids 1..nmsgs)
    update,     \* bot: the update most recently taken from Telegram
    handler,    \* bot: the photo handler in flight, the await it is suspended at, its locals
    socialCalls \* bot: ids of the jobs runBotSocial was called for

vars == <<vpc, vin, vout, cpc, cin, cout, gpc, gin, gout, env, platforms, pc, idx, scpc, calls, smartCrop,
          composed, files, fsops, results, gifResult, outcome, lpc, lin, lout,
          bpc, bout, disk, runs, up, config, session, jobs, nmsgs, update, handler,
          socialCalls>>

validateVars == <<vpc, vin, vout>>

composeVars == <<cpc, cin, cout>>

crossfadeVars == <<gpc, gin, gout>>

adapterVars == <<lpc, lin, lout>>

runnerVars == <<bpc, bout>>

rerunVars == <<runs>>

botVars == <<up, config, session, jobs, nmsgs, update, handler, socialCalls>>

frontVars == <<adapterVars, runnerVars, rerunVars, botVars>>

harnessVars == <<validateVars, composeVars, crossfadeVars, frontVars>>

socialVars == <<env, platforms, pc, idx, scpc, calls, smartCrop, composed,
                files, fsops, results, gifResult, outcome, disk>>

----------------------------------------------------------------------------
(* Bounds of the validation harness *)

MaxPanel == 2

MaxSrc == 3

MaxCoord == 2

(* Bound of the runSocial model: length of the platform list *)
MaxPlatforms == 2

----------------------------------------------------------------------------
(* JSON values as JSON.parse produces them.  A number is kept in halves    *)
(* (h = 2 * value) so that non-integers such as 0.5 are representable.     *)

Undef == [k |-> "undefined", h |-> 0]

JNull == [k |-> "null", h |-> 0]

JStr == [k |-> "string", h |-> 0]

JNum(h) == [k |-> "number", h |-> h]

JInt(n) == JNum(2 * n)

TypeofNumber(v) == v.k = "number"

NumberIsInteger(v) == v.k = "number" /\ v.h % 2 = 0

ToInt(v) == v.h \div 2

(* A member of the parsed response that should be a crop object.  k is     *)
(* "object" for an object, "undefined" when the key is absent, "null",     *)
(* "falsy" for 0, "" or false and "truthy" for any other non-object.       *)
JCrop(l, t, w, h) == [k |-> "object", left |-> l, top |-> t, width |-> w, height |-> h]

JCropOther(kind) == [k |-> kind, left |-> Undef, top |-> Undef, width |-> Undef, height |-> Undef]

JPoint(x, y) == [k |-> "object", x |-> x, y |-> y]

JPointOther(kind) == [k |-> kind, x |-> Undef, y |-> Undef]

Falsy(v) == v.k \in {"undefined", "null", "falsy"}

(* crop[key]: property read on a non-object yields undefined *)
Prop(o, key) == IF o.k = "object" THEN o[key] ELSE Undef

CropKeys == <<"left", "top", "width", "height">>

JObject(b, a, bt, at, r) ==
    [before |-> b, after |-> a, before_trunk_base |-> bt, after_trunk_base |-> at,
     reasoning |-> r]

NoObject == JObject(JCropOther("undefined"), JCropOther("undefined"),
                    JPointOther("undefined"), JPointOther("undefined"), Undef)

(* Response text as a sequence of chunks: "prose" and "fence" contain no   *)
(* brace, "open" is a stray "{", "close" a stray "}", "junk" a brace-      *)
(* delimited span that is not JSON, "json" the text of a JSON object.      *)
Chunk(c) == [c |-> c, obj |-> NoObject]

JsonChunk(o) == [c |-> "json", obj |-> o]

HasOpen(ch) == ch.c \in {"open", "junk", "json"}

HasClose(ch) == ch.c \in {"close", "junk", "json"}

----------------------------------------------------------------------------
(* parseAndValidate *)

NullResult ==
    [ok |-> FALSE,
     before |-> [left |-> 0, top |-> 0, width |-> 0, height |-> 0],
     after |-> [left |-> 0, top |-> 0, width |-> 0, height |-> 0],
     beforeTrunkBase |-> [present |-> FALSE, x |-> 0, y |-> 0],
     afterTrunkBase |-> [present |-> FALSE, x |-> 0, y |-> 0],
     reasoning |-> ""]

MutJsonMatch(text) == text

(* text.match(/\{[\s\S]*\}/): from the first "{" to the last "}" *)
JsonMatch(text) ==
    LET opens == {i \in 1..Len(text) : HasOpen(text[i])}
        closes == {i \in 1..Len(text) : HasClose(text[i])}
    IN IF opens = {} \/ closes = {} THEN <<>>
       ELSE LET first == CHOOSE i \in opens : \A j \in opens : i <= j
                last == CHOOSE i \in closes : \A j \in closes : j <= i
            IN IF first <= last THEN SubSeq(text, first, last) ELSE <<>>

(* JSON.parse succeeds only on the text of exactly one JSON value *)
JsonParses(m) == Len(m) = 1 /\ m[1].c = "json"

MutFieldOk(v) == TypeofNumber(v) /\ v.h >= 0

FieldOk(v) == TypeofNumber(v) /\ NumberIsInteger(v) /\ ~(v.h < 0)

FieldsOk(crop) == \A i \in 1..Len(CropKeys) : FieldOk(Prop(crop, CropKeys[i]))

MutExactSize(crop, pw, ph) == ToInt(crop.width) <= pw /\ ToInt(crop.height) = ph

ExactSize(crop, pw, ph) == ToInt(crop.width) = pw /\ ToInt(crop.height) = ph

MutInBounds(crop, w, h) ==
    ~(ToInt(crop.left) + ToInt(crop.width) > w \/ ToInt(crop.top) > h)

InBounds(crop, w, h) ==
    ~(ToInt(crop.left) + ToInt(crop.width) > w \/ ToInt(crop.top) + ToInt(crop.height) > h)

CoordOk(v, max) == TypeofNumber(v) /\ NumberIsInteger(v) /\ ~(v.h < 0) /\ ~(ToInt(v) >= max)

validatePixelPoint(point, maxX, maxY) ==
    IF Falsy(point) \/ point.k # "object" THEN [present |-> FALSE, x |-> 0, y |-> 0]
    ELSE IF ~CoordOk(point.x, maxX) THEN [present |-> FALSE, x |-> 0, y |-> 0]
    ELSE IF ~CoordOk(point.y, maxY) THEN [present |-> FALSE, x |-> 0, y |-> 0]
    ELSE [present |-> TRUE, x |-> ToInt(point.x), y |-> ToInt(point.y)]

MutIsPointInsideCrop(point, crop) ==
    /\ point.x >= crop.left
    /\ point.x <= crop.left + crop.width
    /\ point.y >= crop.top
    /\ point.y < crop.top + crop.height

isPointInsideCrop(point, crop) ==
    /\ point.x >= crop.left
    /\ point.x < crop.left + crop.width
    /\ point.y >= crop.top
    /\ point.y < crop.top + crop.height

IntCrop(crop) ==
    [left |-> ToInt(crop.left), top |-> ToInt(crop.top),
     width |-> ToInt(crop.width), height |-> ToInt(crop.height)]

(* Lines 318-336 for one anchor: status "absent", "rejected" or "valid" *)
MutAnchorCheck(raw, crop, maxX, maxY) ==
    IF raw.k = "undefined" THEN [status |-> "absent", point |-> NullResult.beforeTrunkBase]
    ELSE LET validated == validatePixelPoint(raw, maxX, maxY)
         IN IF ~validated.present
            THEN [status |-> "absent", point |-> NullResult.beforeTrunkBase]
            ELSE IF ~isPointInsideCrop(validated, IntCrop(crop))
            THEN [status |-> "rejected", point |-> NullResult.beforeTrunkBase]
            ELSE [status |-> "valid", point |-> validated]

AnchorCheck(raw, crop, maxX, maxY) ==
    IF raw.k = "undefined" THEN [status |-> "absent", point |-> NullResult.beforeTrunkBase]
    ELSE LET validated == validatePixelPoint(raw, maxX, maxY)
         IN IF ~validated.present
            THEN [status |-> "rejected", point |-> NullResult.beforeTrunkBase]
            ELSE IF ~isPointInsideCrop(validated, IntCrop(crop))
            THEN [status |-> "rejected", point |-> NullResult.beforeTrunkBase]
            ELSE [status |-> "valid", point |-> validated]

parseAndValidate(text, bw, bh, aw, ah, pw, ph) ==
    LET jsonMatch == JsonMatch(text) IN
    IF jsonMatch = <<>> THEN NullResult
    ELSE IF ~JsonParses(jsonMatch) THEN NullResult
    ELSE LET parsed == jsonMatch[1].obj
             bc == parsed.before
             ac == parsed.after
         IN
         IF Falsy(bc) \/ Falsy(ac) THEN NullResult
         ELSE IF ~(FieldsOk(bc) /\ FieldsOk(ac)) THEN NullResult
         ELSE IF ~ExactSize(bc, pw, ph) THEN NullResult
         ELSE IF ~ExactSize(ac, pw, ph) THEN NullResult
         ELSE IF ~InBounds(bc, bw, bh) THEN NullResult
         ELSE IF ~InBounds(ac, aw, ah) THEN NullResult
         ELSE LET bt == AnchorCheck(parsed.before_trunk_base, bc, bw, bh)
                  at == AnchorCheck(parsed.after_trunk_base, ac, aw, ah)
              IN IF bt.status = "rejected" THEN NullResult
                 ELSE IF at.status = "rejected" THEN NullResult
                 ELSE [ok |-> TRUE,
                       before |-> IntCrop(bc),
                       after |-> IntCrop(ac),
                       beforeTrunkBase |-> bt.point,
                       afterTrunkBase |-> at.point,
                       reasoning |-> IF parsed.reasoning.k = "string" THEN "text" ELSE ""]

----------------------------------------------------------------------------
(* Inputs of the validation harness.  One side of the response (before or  *)
(* after) ranges over the values below while the other side is a panel-    *)
(* sized rectangle at the origin of a MaxSrc x MaxSrc image.               *)

PanelSizes == 1..MaxPanel

SrcSizes == (MaxSrc - 1)..MaxSrc

DefectScalars == {Undef, JNull, JStr, JNum(-2), JNum(-1), JNum(1)}

IntRects ==
    {JCrop(JInt(l), JInt(t), JInt(w), JInt(h)) :
        l \in 0..MaxCoord, t \in 0..MaxCoord, w \in 1..(MaxPanel + 1), h \in 1..(MaxPanel + 1)}

DefectRects(pw, ph) ==
    LET good == JCrop(JInt(0), JInt(0), JInt(pw), JInt(ph))
    IN {[good EXCEPT ![CropKeys[i]] = d] : i \in 1..Len(CropKeys), d \in DefectScalars}
       \cup {JCropOther(kind) : kind \in {"undefined", "null", "falsy", "truthy"}}

AnchorScalars == {JInt(n) : n \in 0..MaxSrc}

AnchorValues ==
    {JPoint(x, y) : x \in AnchorScalars, y \in AnchorScalars}
    \cup {JPoint(d, JInt(0)) : d \in DefectScalars}
    \cup {JPoint(JInt(0), d) : d \in DefectScalars}
    \cup {JPointOther(kind) : kind \in {"null", "falsy", "truthy"}}

OtherAnchors == {JPointOther("undefined"), JPoint(JInt(0), JInt(0))}

(* <<focus crop, focus anchor, other anchor>> *)
FocusValues(pw, ph) ==
    {<<c, JPointOther("undefined"), JPointOther("undefined")>> :
        c \in IntRects \cup DefectRects(pw, ph)}
    \cup {<<JCrop(JInt(l), JInt(t), JInt(pw), JInt(ph)), p, o>> :
            l \in 0..1, t \in 0..1, p \in AnchorValues, o \in OtherAnchors}

Args(text, bw, bh, aw, ah, pw, ph) ==
    [text |-> text, bw |-> bw, bh |-> bh, aw |-> aw, ah |-> ah, pw |-> pw, ph |-> ph]

GoodCrop(pw, ph) == JCrop(JInt(0), JInt(0), JInt(pw), JInt(ph))

BeforeFocus(f, w, h, pw, ph) ==
    Args(<<JsonChunk(JObject(f[1], GoodCrop(pw, ph), f[2], f[3], JStr))>>,
         w, h, MaxSrc, MaxSrc, pw, ph)

AfterFocus(f, w, h, pw, ph) ==
    Args(<<JsonChunk(JObject(GoodCrop(pw, ph), f[1], f[3], f[2], Undef))>>,
         MaxSrc, MaxSrc, w, h, pw, ph)

GoodObject(pw, ph) ==
    JObject(GoodCrop(pw, ph), GoodCrop(pw, ph), JPointOther("undefined"),
            JPointOther("undefined"), JStr)

TextForms(o) ==
    {<<>>, <<Chunk("prose")>>, <<Chunk("junk")>>, <<Chunk("open")>>,
     <<Chunk("close"), Chunk("open")>>,
     <<Chunk("fence"), JsonChunk(o), Chunk("fence")>>,
     <<Chunk("prose"), JsonChunk(o), Chunk("prose")>>,
     <<JsonChunk(o), Chunk("prose"), JsonChunk(o)>>,
     <<Chunk("open"), JsonChunk(o)>>,
     <<JsonChunk(o), Chunk("close")>>}

TextFormInputs ==
    {Args(t, MaxSrc, MaxSrc, MaxSrc, MaxSrc, 1, 1) : t \in TextForms(GoodObject(1, 1))}

NoArgs == Args(<<>>, 0, 0, 0, 0, 0, 0)

----------------------------------------------------------------------------
(* Platform registry and panel geometry *)

Registry ==
    [nextdoor |-> [name |-> "nextdoor", width |-> 1200, height |-> 675,
                   format |-> "jpeg", layout |-> "side-by-side"],
     facebook |-> [name |-> "facebook", width |-> 1080, height |-> 1350,
                   format |-> "jpeg", layout |-> "stacked"]]

getAvailablePlatforms == DOMAIN Registry

NoSpec == [name |-> "", width |-> 0, height |-> 0, format |-> "", layout |-> ""]

NoAdapter == [threw |-> FALSE, spec |-> NoSpec, unknown |-> "", available |-> {}]

(* The registry lookup: the adapter stored under the key, or the           *)
(* unknown-platform error naming the key and the registered names          *)
getAdapter(name) ==
    IF name \in DOMAIN Registry
    THEN [NoAdapter EXCEPT !.spec = Registry[name]]
    ELSE [NoAdapter EXCEPT !.threw = TRUE, !.unknown = name,
                           !.available = getAvailablePlatforms]

NoValidation == [threw |-> FALSE, invalid |-> <<>>, available |-> {}]

Registered(p) == p \in getAvailablePlatforms

Unregistered(p) == ~Registered(p)

MutValidateSocialPlatforms(list) ==
    IF Len(list) = 0 \/ Registered(list[1])
    THEN NoValidation
    ELSE [threw |-> TRUE, invalid |-> SelectSeq(list, Unregistered),
          available |-> getAvailablePlatforms]

(* bot/services/socialRunner.ts, lines 8-18 *)
validateSocialPlatforms(list) ==
    IF Len(list) = 0
    THEN NoValidation
    ELSE LET invalid == SelectSeq(list, Unregistered)
         IN IF Len(invalid) > 0
            THEN [threw |-> TRUE, invalid |-> invalid,
                  available |-> getAvailablePlatforms]
            ELSE NoValidation

PanelWidth(spec) ==
    IF spec.layout = "side-by-side" THEN spec.width \div 2 ELSE spec.width

PanelHeight(spec) ==
    IF spec.layout = "side-by-side" THEN spec.height ELSE spec.height \div 2

----------------------------------------------------------------------------
(* Compositor (composer.ts) *)

MaxTarget == 4

Rect(left, top, width, height) ==
    [left |-> left, top |-> top, width |-> width, height |-> height]

Size(w, h) == [w |-> w, h |-> h]

MutComposerPanelWidth(spec) ==
    IF spec.layout = "side-by-side" THEN (spec.width + 1) \div 2 ELSE spec.width

(* composer.ts lines 41-50 *)
ComposerPanelWidth(spec) ==
    IF spec.layout = "side-by-side" THEN spec.width \div 2 ELSE spec.width

ComposerPanelHeight(spec) ==
    IF spec.layout = "side-by-side" THEN spec.height ELSE spec.height \div 2

(* sharp extract: the region must be non-empty and lie inside the image *)
Extractable(crop, source) ==
    /\ crop.width > 0 /\ crop.height > 0
    /\ crop.left >= 0 /\ crop.top >= 0
    /\ crop.left + crop.width <= source.w
    /\ crop.top + crop.height <= source.h

(* Lines 58-76: one panel. Extract the advised region and resize it, or    *)
(* cover-fit the whole source; either way the buffer is pw x ph            *)
Panel(source, advice, crop, pw, ph) ==
    IF pw <= 0 \/ ph <= 0 THEN [ok |-> FALSE, w |-> 0, h |-> 0]
    ELSE IF advice.ok /\ ~Extractable(crop, source) THEN [ok |-> FALSE, w |-> 0, h |-> 0]
    ELSE [ok |-> TRUE, w |-> pw, h |-> ph]

(* Lines 92-107: where the "before" panel goes *)
BeforeOffset(spec, pw, ph) == [top |-> 0, left |-> 0]

MutAfterOffset(spec, pw, ph) == [top |-> 0, left |-> 0]

(* Lines 92-107: where the "after" panel goes *)
AfterOffset(spec, pw, ph) ==
    IF spec.layout = "side-by-side" THEN [top |-> 0, left |-> pw]
    ELSE [top |-> ph, left |-> 0]

MutCanvas(spec) == Size(ComposerPanelWidth(spec), ComposerPanelHeight(spec))

(* Lines 137-144: the blank canvas the panels are composited onto *)
Canvas(spec) == Size(spec.width, spec.height)

NoComposeResult ==
    [ok |-> FALSE, width |-> 0, height |-> 0, mode |-> "none",
     before |-> Rect(0, 0, 0, 0), after |-> Rect(0, 0, 0, 0)]

(* Lines 31-162. decoded: both source files can be decoded. The encoded    *)
(* image has the size of the canvas (outputInfo, lines 156-162).           *)
composeSocialImage(spec, images, advice, decoded) ==
    LET panelWidth == ComposerPanelWidth(spec)
        panelHeight == ComposerPanelHeight(spec)
        beforeBuffer == Panel(images.before, advice, advice.before, panelWidth, panelHeight)
        afterBuffer == Panel(images.after, advice, advice.after, panelWidth, panelHeight)
        beforeAt == BeforeOffset(spec, panelWidth, panelHeight)
        afterAt == AfterOffset(spec, panelWidth, panelHeight)
        canvas == Canvas(spec)
    IN IF ~decoded \/ ~beforeBuffer.ok \/ ~afterBuffer.ok THEN NoComposeResult
       ELSE IF beforeBuffer.w > canvas.w \/ beforeBuffer.h > canvas.h
               \/ afterBuffer.w > canvas.w \/ afterBuffer.h > canvas.h
            THEN NoComposeResult
       ELSE [ok |-> TRUE, width |-> canvas.w, height |-> canvas.h,
             mode |-> IF advice.ok THEN "extract" ELSE "cover",
             before |-> Rect(beforeAt.left, beforeAt.top, beforeBuffer.w, beforeBuffer.h),
             after |-> Rect(afterAt.left, afterAt.top, afterBuffer.w, afterBuffer.h)]

(* Inputs of the compositor harness: the registered specs with the sources *)
(* of the test suite, and every small target size in both layouts          *)
SmallSpecs ==
    [name : {"test"}, width : 1..MaxTarget, height : 1..MaxTarget,
     format : {"jpeg", "png"}, layout : {"side-by-side", "stacked"}]

ComposeSpecs == {Registry[p] : p \in DOMAIN Registry} \cup SmallSpecs

ComposeSources(spec) ==
    IF spec \in SmallSpecs
    THEN {[before |-> Size(MaxTarget, MaxTarget), after |-> Size(MaxTarget, MaxTarget)],
          [before |-> Size(MaxTarget + 1, MaxTarget), after |-> Size(MaxTarget, MaxTarget + 1)],
          [before |-> Size(1, 1), after |-> Size(MaxTarget, MaxTarget)]}
    ELSE {[before |-> Size(1200, 900), after |-> Size(1000, 800)],
          [before |-> Size(1200, 900), after |-> Size(1200, 900)],
          [before |-> Size(1600, 1200), after |-> Size(1600, 1200)]}

Advice(before, after) ==
    [ok |-> TRUE, before |-> before, after |-> after,
     beforeTrunkBase |-> NullResult.beforeTrunkBase,
     afterTrunkBase |-> NullResult.afterTrunkBase, reasoning |-> ""]

ComposeAdvice(spec) ==
    LET pw == ComposerPanelWidth(spec)
        ph == ComposerPanelHeight(spec)
    IN {NullResult,
        Advice(Rect(0, 0, pw, ph), Rect(0, 0, pw, ph)),
        Advice(Rect(1, 0, pw, ph), Rect(0, 1, pw, ph))}

NoComposeInput ==
    [spec |-> Registry.nextdoor, images |-> [before |-> Size(0, 0), after |-> Size(0, 0)],
     advice |-> NullResult, decoded |-> FALSE]

----------------------------------------------------------------------------
(* Environment of a runSocial call *)

PlatformNames == getAvailablePlatforms \cup {"myspace"}

PlatformLists == UNION {[1..n -> PlatformNames] : n \in 0..MaxPlatforms}

ImagePairs ==
    {[before |-> Size(1200, 900), after |-> Size(1000, 800)],
     [before |-> Size(1200, 900), after |-> Size(1200, 900)]}

(* Absolute paths are sequences of components below the filesystem root *)
JobDir == <<"jobs", "j1">>

OutputDir == JobDir \o <<"output">>

ManifestPath == OutputDir \o <<"manifest.json">>

JobJsonPath == JobDir \o <<"job.json">>

SocialDir == OutputDir \o <<"social">>

PlatformDir(name) == SocialDir \o <<name>>

ImageFile(format) == IF format = "jpeg" THEN "image.jpg" ELSE "image.png"

ImagePath(spec) == PlatformDir(spec.name) \o <<ImageFile(spec.format)>>

MutCaptionPath(name) == OutputDir \o <<"caption.generic.txt">>

CaptionPath(name) == PlatformDir(name) \o <<"caption.txt">>

GifPath(name) == PlatformDir(name) \o <<"transition.gif">>

ManifestOutputPath(name) == PlatformDir(name) \o <<"manifest.json">>

(* path.resolve(base, rel): ".." drops the last component (the root has    *)
(* none to drop), "/" restarts from the root                               *)
RECURSIVE Resolve(_, _)
Resolve(base, rel) ==
    IF rel = <<>> THEN base
    ELSE IF Head(rel) = "/" THEN Resolve(<<>>, Tail(rel))
    ELSE IF Head(rel) = ".."
         THEN Resolve(IF base = <<>> THEN <<>> ELSE SubSeq(base, 1, Len(base) - 1), Tail(rel))
    ELSE Resolve(Append(base, Head(rel)), Tail(rel))

StartsWith(path, prefix) ==
    Len(prefix) <= Len(path) /\ SubSeq(path, 1, Len(prefix)) = prefix

MutContainedIn(path, anchor) == TRUE

(* assertResolvedContainedIn passes: the path is the anchor or lies below it *)
ContainedIn(path, anchor) ==
    path = anchor \/ (Len(path) > Len(anchor) /\ StartsWith(path, anchor))

JobStates ==
    {"ok", "no_manifest", "no_media_pair", "before_escape", "after_escape",
     "sibling_escape", "before_missing", "after_missing"}

(* inputs.mediaPairs of the upstream manifest, relative to output/ *)
MediaPairs(job) ==
    IF job = "no_media_pair" THEN <<>>
    ELSE <<[before |-> CASE job = "before_escape" -> <<"..", "..", "..", "..", "etc", "passwd">>
                         [] job = "sibling_escape" -> <<"..", "..", "j1x", "before.png">>
                         [] OTHER -> <<"..", "before.png">>,
            after |-> IF job = "after_escape" THEN <<"..", "..", "..", "etc", "shadow">>
                      ELSE <<"..", "after.png">>]>>

(* Files that exist when runSocial is called *)
Present(job) ==
    {JobJsonPath, <<"etc", "passwd">>, <<"etc", "shadow">>, <<"jobs", "j1x", "before.png">>}
    \cup (IF job = "no_manifest" THEN {} ELSE {ManifestPath})
    \cup (IF job = "before_missing" THEN {} ELSE {JobDir \o <<"before.png">>})
    \cup (IF job = "after_missing" THEN {} ELSE {JobDir \o <<"after.png">>})

(* One file operation: kind, path and, for a manifest write, its blocks *)
FsOp(kind, path) == <<kind, path, <<>>>>

MutManifestExists(job) == TRUE

(* fs.existsSync(manifestPath), line 91 *)
ManifestExists(job) == ManifestPath \in Present(job)

(* Lines 86-142: the checks runSocial makes before the platform loop, in   *)
(* order, with the error thrown ("none" if the loop is reached)            *)
Prelude(job) ==
    LET beforePath == Resolve(OutputDir, MediaPairs(job)[1].before)
        afterPath == Resolve(OutputDir, MediaPairs(job)[1].after)
        o1 == <<FsOp("exists", ManifestPath)>>
        o2 == Append(o1, FsOp("read", ManifestPath))
        o3 == Append(o2, FsOp("exists", beforePath))
        o4 == Append(o3, FsOp("exists", afterPath))
        o5 == Append(o4, FsOp("exists", JobJsonPath))
        o6 == IF JobJsonPath \in Present(job) THEN Append(o5, FsOp("read", JobJsonPath))
              ELSE o5
    IN IF ~ManifestExists(job) THEN [ops |-> o1, error |-> "manifest_not_found"]
       ELSE IF MediaPairs(job) = <<>> THEN [ops |-> o2, error |-> "no_media_pairs"]
       ELSE IF ~ContainedIn(beforePath, JobDir) \/ ~ContainedIn(afterPath, JobDir)
            THEN [ops |-> o2, error |-> "path_escape"]
       ELSE IF beforePath \notin Present(job) THEN [ops |-> o3, error |-> "before_not_found"]
       ELSE IF afterPath \notin Present(job) THEN [ops |-> o4, error |-> "after_not_found"]
       ELSE IF ~ContainedIn(SocialDir, JobDir) THEN [ops |-> o6, error |-> "path_escape"]
       ELSE [ops |-> Append(o6, FsOp("mkdir", SocialDir)), error |-> "none"]

Envs ==
    [apiKey : BOOLEAN, genai : BOOLEAN, gif : BOOLEAN, job : JobStates, images : ImagePairs]

NoEnv ==
    [apiKey |-> FALSE, genai |-> FALSE, gif |-> FALSE, job |-> "ok",
     images |-> [before |-> Size(0, 0), after |-> Size(0, 0)]]

(* Texts the external service may answer with for a pw x ph panel *)
ServiceTexts(pw, ph) ==
    {<<Chunk("fence"),
      JsonChunk(JObject(JCrop(JInt(100), JInt(50), JInt(pw), JInt(ph)),
                        JCrop(JInt(50), JInt(25), JInt(pw), JInt(ph)),
                        JPoint(JInt(100), JInt(50)), JPoint(JInt(50), JInt(25)), JStr)),
      Chunk("fence")>>,
     <<JsonChunk(JObject(JCrop(JInt(700), JInt(0), JInt(pw), JInt(ph)), GoodCrop(pw, ph),
                         JPointOther("undefined"), JPointOther("undefined"), JStr))>>}

----------------------------------------------------------------------------
(* Crossfade GIF generator (crossfade.ts) *)

MaxFrames == 2

CROSSFADE_DEFAULTS ==
    [frameCount |-> 20, frameDelay |-> 80, holdBefore |-> 1500, holdAfter |-> 6000,
     outputWidth |-> 720]

(* The steps of generateCrossfadeGif that can fail, in order *)
CrossfadeStages == <<"import", "decode", "encode", "write", "stat", "metadata">>

CrossfadeFailures == {"none"} \cup {CrossfadeStages[k] : k \in DOMAIN CrossfadeStages}

StageIndex(stage) == CHOOSE k \in DOMAIN CrossfadeStages : CrossfadeStages[k] = stage

(* The step completed: the call did not fail at it or before it *)
Passed(fail, stage) == fail = "none" \/ StageIndex(fail) > StageIndex(stage)

MutCrossfadeCaught(stage) == stage # "import"

(* The import sits in the try of lines 86-91, every later step in the try  *)
(* of lines 93-181; both catch blocks return null                          *)
CrossfadeCaught(stage) == stage \in CrossfadeFailures

(* A fraction num/den; the blend factors of the bounds below and of the    *)
(* default frame count have denominators 1, 2, 3, 4 and 21, for which the  *)
(* double arithmetic of the code rounds as the exact value does            *)
Frac(num, den) == [num |-> num, den |-> den]

(* Line 126: alpha = i / (frameCount + 1) *)
Alpha(i, frameCount) == Frac(i, frameCount + 1)

(* Math.round of a non-negative fraction: halves go up *)
Round(num, den) == (2 * num + den) \div (2 * den)

MutBlend(before, after, alpha) ==
    ((before * (alpha.den - alpha.num) + after * alpha.num) \div alpha.den) % 256

(* Line 132: Math.round(before * (1 - alpha) + after * alpha), stored in a *)
(* byte of the buffer                                                      *)
Blend(before, after, alpha) ==
    Round(before * (alpha.den - alpha.num) + after * alpha.num, alpha.den) % 256

(* A frame: where its bytes come from, and the byte it holds at the        *)
(* sampled position; a held frame has no blend factor, kept as 0           *)
Frame(src, i, alpha, byte) == [src |-> src, i |-> i, alpha |-> alpha, byte |-> byte]

MutBlendFrames(n, sample) ==
    [i \in 1..(n - 1) |->
        Frame("blend", i, Alpha(i, n), Blend(sample.before, sample.after, Alpha(i, n)))]

(* Lines 125-139: the loop pushes one blended frame for i = 1..frameCount *)
BlendFrames(n, sample) ==
    [i \in 1..n |->
        Frame("blend", i, Alpha(i, n), Blend(sample.before, sample.after, Alpha(i, n)))]

(* Lines 113-147: sharpFrames *)
BuildFrames(opts, sample) ==
    <<Frame("before", 0, Frac(0, 1), sample.before)>>
        \o BlendFrames(opts.frameCount, sample)
        \o <<Frame("after", 0, Frac(0, 1), sample.after)>>

(* Line 138: one delay pushed per blended frame *)
BlendDelays(n, d) == [i \in 1..n |-> d]

(* Lines 114-147: delays *)
BuildDelays(opts) ==
    <<opts.holdBefore>> \o BlendDelays(opts.frameCount, opts.frameDelay)
        \o <<opts.holdAfter>>

(* actualDelays.reduce((sum, d) => sum + d, 0), line 166 *)
RECURSIVE SumFirst(_, _)
SumFirst(ds, k) == IF k = 0 THEN 0 ELSE SumFirst(ds, k - 1) + ds[k]

SumDelays(ds) == SumFirst(ds, Len(ds))

(* Metadata of the encoded file: absent, as handed to the encoder, or with *)
(* identical frames merged into one                                        *)
MetaKinds == {"none", "same", "merged"}

GifMeta(kind, frames, delays) ==
    CASE kind = "none" -> [hasPages |-> FALSE, pages |-> 0, hasDelay |-> FALSE, delay |-> <<>>]
      [] kind = "same" -> [hasPages |-> TRUE, pages |-> Len(frames), hasDelay |-> TRUE,
                           delay |-> delays]
      [] OTHER -> [hasPages |-> TRUE, pages |-> 1, hasDelay |-> TRUE,
                   delay |-> <<SumDelays(delays)>>]

(* Lines 84-181, control flow only. fail is the step that fails ("none":  *)
(* no step does), partial whether a failed write leaves a file behind.     *)
CrossfadeOutcome(fail, partial) ==
    [value |-> IF fail = "none" THEN "result"
               ELSE IF CrossfadeCaught(fail) THEN "null" ELSE "threw",
     readImages |-> Passed(fail, "import"),
     encoded |-> Passed(fail, "decode"),
     wrote |-> Passed(fail, "write") \/ (fail = "write" /\ partial)]

(* Lines 78-182. sample is one byte of the two resized images, at the same *)
(* position; meta is what the metadata of the encoded file reports.        *)
generateCrossfadeGif(opts, sample, fail, partial, meta) ==
    LET out == CrossfadeOutcome(fail, partial)
        frames == BuildFrames(opts, sample)
        delays == BuildDelays(opts)
        gifMeta == GifMeta(meta, frames, delays)
    IN [value |-> out.value,
        readImages |-> out.readImages,
        frames |-> IF out.encoded THEN frames ELSE <<>>,
        delays |-> IF out.encoded THEN delays ELSE <<>>,
        wrote |-> out.wrote,
        frameCount |-> IF fail # "none" THEN 0
                       ELSE IF gifMeta.hasPages THEN gifMeta.pages ELSE Len(frames),
        durationMs |-> IF fail # "none" THEN 0
                       ELSE IF gifMeta.hasDelay THEN SumDelays(gifMeta.delay)
                       ELSE opts.holdBefore + opts.holdAfter
                            + opts.frameCount * opts.frameDelay]

(* Inputs of the crossfade harness *)
CrossfadeOptions ==
    [frameCount : (0..MaxFrames) \cup {CROSSFADE_DEFAULTS.frameCount},
     frameDelay : {10, CROSSFADE_DEFAULTS.frameDelay},
     holdBefore : {0, CROSSFADE_DEFAULTS.holdBefore},
     holdAfter : {100, CROSSFADE_DEFAULTS.holdAfter},
     outputWidth : {CROSSFADE_DEFAULTS.outputWidth}]

Bytes == {0, 1, 128, 255}

CrossfadeInputs ==
    [options : CrossfadeOptions, sample : [before : Bytes, after : Bytes],
     fail : CrossfadeFailures, partial : BOOLEAN, meta : MetaKinds]

NoCrossfadeInput ==
    [options |-> CROSSFADE_DEFAULTS, sample |-> [before |-> 0, after |-> 0],
     fail |-> "none", partial |-> FALSE, meta |-> "none"]

NoCrossfadeResult ==
    [value |-> "none", readImages |-> FALSE, frames |-> <<>>, delays |-> <<>>,
     wrote |-> FALSE, frameCount |-> 0, durationMs |-> 0]

----------------------------------------------------------------------------
(* State of one getSmartCrop call (one per platform iteration) *)

NoCall ==
    [svc |-> "none",       \* ai.models.generateContent: none / pending / resolved / rejected
     text |-> <<>>,        \* response.text || "" once resolved
     timer |-> "none",     \* setTimeout of withTimeout: none / armed / cleared / fired
     promise |-> "none",   \* withTimeout promise: none / pending / fulfilled / timeout / error
     sc |-> "none",        \* getSmartCrop promise: none / pending / fulfilled / rejected
     result |-> NullResult,\* value the getSmartCrop promise was fulfilled with
     trace |-> <<>>]       \* checks getSmartCrop has made, in order

(* A promise settles once: later resolve/reject calls are no-ops *)
Settle(p, v) == IF p = "pending" THEN v ELSE p

MutClearTimeout(timer) == timer

ClearTimeout(timer) == IF timer = "armed" THEN "cleared" ELSE timer

MutLargeEnough(images, pw, ph) ==
    ~(images.before.w < pw \/ images.before.h < ph)

LargeEnough(images, pw, ph) ==
    ~(images.before.w < pw \/ images.before.h < ph
      \/ images.after.w < pw \/ images.after.h < ph)

FailureStages == {"import", "metadata", "downscale", "service", "timeout"}

MutCaughtImport(stage) == stage \in FailureStages \ {"import"}

MutCaughtTimeout(stage) == stage \in FailureStages \ {"timeout"}

(* Every failing step of getSmartCrop sits inside a try block whose catch  *)
(* returns null: the import in lines 75-81, the rest in lines 83-153.      *)
Caught(stage) == stage \in FailureStages

SpecOf(i) == Registry[platforms[i]]

(* composeSocialImage lines 58-76: extract the advised rectangles, or cover-fit *)
CropMode(advice) == IF advice.ok THEN "extract" ELSE "cover"

ComposeCall(advice) == [advice |-> advice, mode |-> CropMode(advice)]

(* getSmartCrop resolves to result; runSocial resumes and calls composeSocialImage *)
SmartCropReturns(i, result, base) ==
    /\ calls' = [base EXCEPT ![i].sc = "fulfilled", ![i].result = result]
    /\ smartCrop' = result
    /\ composed' = [composed EXCEPT ![i] = Append(@, ComposeCall(result))]
    /\ pc' = "compose"
    /\ scpc' = "idle"
    /\ UNCHANGED <<env, platforms, disk, idx, files, fsops, results, gifResult, outcome>>

(* A step of getSmartCrop failed at the given stage *)
SmartCropFails(i, stage, base) ==
    IF Caught(stage)
    THEN SmartCropReturns(i, NullResult, base)
    ELSE /\ calls' = [base EXCEPT ![i].sc = "rejected"]
         /\ pc' = "done"
         /\ scpc' = "idle"
         /\ outcome' = "smartcrop_rejected"
         /\ UNCHANGED <<env, platforms, disk, idx, smartCrop, composed, files, fsops, results, gifResult>>

Traced(c, check) == [c EXCEPT !.trace = Append(@, check)]

----------------------------------------------------------------------------
(* runSocial *)

(* What a platform directory holds: the bytes of the image and of the      *)
(* animation, and the two digests the manifest records                     *)
NoBytes == [platform |-> "", call |-> ComposeCall(NullResult), gif |-> ""]

Sha256(bytes) == [of |-> bytes]

EmptyDir ==
    [image |-> [present |-> FALSE, bytes |-> NoBytes],
     transition |-> [present |-> FALSE, bytes |-> NoBytes],
     manifest |-> [present |-> FALSE, image |-> Sha256(NoBytes),
                   hasTransition |-> FALSE, transition |-> Sha256(NoBytes)]]

EmptyDisk == [p \in getAvailablePlatforms |-> EmptyDir]

(* composeSocialImage line 154: the encoded composite of this iteration's  *)
(* sources, spec and crop advice                                           *)
ImageBytes(name, advice) == [NoBytes EXCEPT !.platform = name, !.call = ComposeCall(advice)]

(* crossfade.ts line 155: what the write of the encoded animation put at  *)
(* gifPath; a file cut short by a failed write is not told apart           *)
GifBytes(name) == [NoBytes EXCEPT !.platform = name, !.gif = "encoded"]

WriteImage(d, name, advice) ==
    [d EXCEPT ![name].image = [present |-> TRUE, bytes |-> ImageBytes(name, advice)]]

WriteGif(d, name) ==
    [d EXCEPT ![name].transition = [present |-> TRUE, bytes |-> GifBytes(name)]]

(* sha256File, lines 67-70: the digest of what the file holds now *)
sha256File(d, name, file) ==
    IF file = "image" THEN Sha256(d[name].image.bytes) ELSE Sha256(d[name].transition.bytes)

(* Lines 186-233: the manifest with the digests of the files just written *)
WriteManifest(d, name, transition) ==
    [d EXCEPT ![name].manifest =
        [present |-> TRUE,
         image |-> sha256File(d, name, "image"),
         hasTransition |-> transition,
         transition |-> IF transition THEN sha256File(d, name, "transition")
                        ELSE Sha256(NoBytes)]]

InitSocial ==
    /\ env \in Envs
    /\ platforms \in PlatformLists
    /\ pc = "start"
    /\ idx = 0
    /\ scpc = "idle"
    /\ calls = [i \in 1..Len(platforms) |-> NoCall]
    /\ smartCrop = NullResult
    /\ composed = [i \in 1..Len(platforms) |-> <<>>]
    /\ files = {}
    /\ fsops = <<>>
    /\ results = <<>>
    /\ gifResult = "none"
    /\ outcome = "none"
    /\ disk = EmptyDisk

IdleSocial ==
    /\ env = NoEnv
    /\ platforms = <<>>
    /\ pc = "off"
    /\ idx = 0
    /\ scpc = "idle"
    /\ calls = <<>>
    /\ smartCrop = NullResult
    /\ composed = <<>>
    /\ files = {}
    /\ fsops = <<>>
    /\ results = <<>>
    /\ gifResult = "none"
    /\ outcome = "none"
    /\ disk = EmptyDisk

(* Lines 86-144: preconditions, then the social output root *)
Start ==
    /\ pc = "start"
    /\ fsops' = Prelude(env.job).ops
    /\ IF Prelude(env.job).error # "none"
       THEN /\ pc' = "done"
            /\ outcome' = Prelude(env.job).error
            /\ UNCHANGED <<idx, files>>
       ELSE /\ files' = files \cup {<<"", "dir">>}
            /\ IF platforms = <<>>
               THEN pc' = "done" /\ outcome' = "returned" /\ idx' = idx
               ELSE pc' = "loop" /\ outcome' = outcome /\ idx' = 1
    /\ UNCHANGED <<env, platforms, disk, scpc, calls, smartCrop, composed, results, gifResult>>
    /\ UNCHANGED harnessVars

(* Lines 146-163: adapter lookup, platform directory, getSmartCrop up to   *)
(* its first await (lines 67-76)                                           *)
MutAdapterThrows ==
    /\ pc' = "done"
    /\ outcome' = "unknown_platform"
    /\ files' = files \cup {<<platforms[idx], "dir">>}
    /\ fsops' = Append(fsops, FsOp("mkdir", PlatformDir(platforms[idx])))
    /\ UNCHANGED <<env, platforms, disk, idx, scpc, calls, smartCrop, composed,
                   results, gifResult>>

(* Line 147: getAdapter throws out of the loop and out of runSocial *)
AdapterThrows ==
    /\ pc' = "done"
    /\ outcome' = "unknown_platform"
    /\ UNCHANGED <<env, platforms, disk, idx, scpc, calls, smartCrop, composed,
                   files, fsops, results, gifResult>>

LoopHead ==
    /\ pc = "loop"
    /\ IF getAdapter(platforms[idx]).threw
       THEN AdapterThrows
       ELSE /\ files' = files \cup {<<platforms[idx], "dir">>}
            /\ fsops' = Append(fsops, FsOp("mkdir", PlatformDir(SpecOf(idx).name)))
            /\ IF ~env.apiKey
               THEN /\ calls' = [calls EXCEPT ![idx] = [Traced(@, "key") EXCEPT
                                      !.sc = "fulfilled", !.result = NullResult]]
                    /\ smartCrop' = NullResult
                    /\ composed' = [composed EXCEPT ![idx] = Append(@, ComposeCall(NullResult))]
                    /\ pc' = "compose"
                    /\ scpc' = "idle"
               ELSE /\ calls' = [calls EXCEPT ![idx] = [Traced(@, "key") EXCEPT
                                      !.sc = "pending"]]
                    /\ pc' = "smartcrop"
                    /\ scpc' = "import"
                    /\ UNCHANGED <<smartCrop, composed>>
            /\ UNCHANGED <<env, platforms, disk, idx, results, gifResult, outcome>>
    /\ UNCHANGED harnessVars

(* Lines 75-81: the dynamic import settles *)
ImportSettles ==
    /\ pc = "smartcrop" /\ scpc = "import"
    /\ LET base == [calls EXCEPT ![idx] = Traced(@, "import")]
       IN IF env.genai
          THEN /\ calls' = base
               /\ scpc' = "metadata"
               /\ UNCHANGED <<env, platforms, disk, pc, idx, smartCrop, composed, files, fsops,
                              results, gifResult, outcome>>
          ELSE SmartCropFails(idx, "import", base)
    /\ UNCHANGED harnessVars

(* Lines 85-97: both metadata reads settle, then the size check *)
MetadataSettles ==
    /\ pc = "smartcrop" /\ scpc = "metadata"
    /\ \E readable \in BOOLEAN :
         IF ~readable
         THEN SmartCropFails(idx, "metadata", calls)
         ELSE LET base == [calls EXCEPT ![idx] = Traced(@, "size")]
              IN IF ~LargeEnough(env.images, PanelWidth(SpecOf(idx)), PanelHeight(SpecOf(idx)))
                 THEN SmartCropReturns(idx, NullResult, base)
                 ELSE /\ calls' = base
                      /\ scpc' = "downscale"
                      /\ UNCHANGED <<env, platforms, disk, pc, idx, smartCrop, composed,
                                     files, fsops, results, gifResult, outcome>>
    /\ UNCHANGED harnessVars

(* Lines 100-133: both downscales settle, the request is sent and the      *)
(* timer of withTimeout (lines 353-361) is armed                           *)
DownscaleSettles ==
    /\ pc = "smartcrop" /\ scpc = "downscale"
    /\ \E readable \in BOOLEAN :
         IF ~readable
         THEN SmartCropFails(idx, "downscale", calls)
         ELSE /\ calls' = [calls EXCEPT ![idx].svc = "pending", ![idx].timer = "armed",
                                        ![idx].promise = "pending"]
              /\ scpc' = "service"
              /\ UNCHANGED <<env, platforms, disk, pc, idx, smartCrop, composed, files, fsops,
                             results, gifResult, outcome>>
    /\ UNCHANGED harnessVars

(* The service answers call i: withTimeout's fulfilment handler (line 357) *)
(* and, if the promise was still pending, lines 135-148                    *)
ServiceResolves(i) ==
    /\ i \in DOMAIN calls
    /\ calls[i].svc = "pending"
    /\ \E text \in ServiceTexts(PanelWidth(SpecOf(i)), PanelHeight(SpecOf(i))) :
         LET base == [calls EXCEPT ![i].svc = "resolved", ![i].text = text,
                                   ![i].timer = ClearTimeout(@),
                                   ![i].promise = Settle(@, "fulfilled")]
         IN IF calls[i].promise = "pending"
            THEN SmartCropReturns(i,
                     parseAndValidate(text, env.images.before.w, env.images.before.h,
                                      env.images.after.w, env.images.after.h,
                                      PanelWidth(SpecOf(i)), PanelHeight(SpecOf(i))),
                     base)
            ELSE /\ calls' = base
                 /\ UNCHANGED <<env, platforms, disk, pc, idx, scpc, smartCrop, composed,
                                files, fsops, results, gifResult, outcome>>
    /\ UNCHANGED harnessVars

(* The service call i fails: withTimeout's rejection handler (line 358)    *)
(* and, if the promise was still pending, the catch of lines 149-153       *)
ServiceRejects(i) ==
    /\ i \in DOMAIN calls
    /\ calls[i].svc = "pending"
    /\ LET base == [calls EXCEPT ![i].svc = "rejected",
                                 ![i].timer = ClearTimeout(@),
                                 ![i].promise = Settle(@, "error")]
       IN IF calls[i].promise = "pending"
          THEN SmartCropFails(i, "service", base)
          ELSE /\ calls' = base
               /\ UNCHANGED <<env, platforms, disk, pc, idx, scpc, smartCrop, composed,
                              files, fsops, results, gifResult, outcome>>
    /\ UNCHANGED harnessVars

(* The timer of call i fires (line 355) *)
TimeoutFires(i) ==
    /\ i \in DOMAIN calls
    /\ calls[i].timer = "armed"
    /\ LET base == [calls EXCEPT ![i].timer = "fired",
                                 ![i].promise = Settle(@, "timeout")]
       IN IF calls[i].promise = "pending"
          THEN SmartCropFails(i, "timeout", base)
          ELSE /\ calls' = base
               /\ UNCHANGED <<env, platforms, disk, pc, idx, scpc, smartCrop, composed,
                              files, fsops, results, gifResult, outcome>>
    /\ UNCHANGED harnessVars

MutManifestBlocks(transition) == <<"image", "caption", "transition">>

(* Lines 210-233: the blocks of the per-platform manifest *)
ManifestBlocks(transition) ==
    IF transition THEN <<"image", "caption", "transition">> ELSE <<"image", "caption">>

(* Lines 210-252: manifest, result entry, next platform or return *)
FinishIteration(written, log, transition, stored) ==
    /\ files' = written \cup {<<platforms[idx], "manifest">>}
    /\ disk' = WriteManifest(stored, platforms[idx], transition)
    /\ fsops' = Append(log, <<"write", ManifestOutputPath(SpecOf(idx).name),
                              ManifestBlocks(transition)>>)
    /\ results' = Append(results, [platform |-> platforms[idx], transition |-> transition])
    /\ IF idx = Len(platforms)
       THEN pc' = "done" /\ outcome' = "returned" /\ idx' = idx
       ELSE pc' = "loop" /\ outcome' = outcome /\ idx' = idx + 1

MutGifEnabled(e) == TRUE

(* process.env.WORKSHOT_SOCIAL_GIF === "1", line 185 *)
GifEnabled(e) == e.gif

(* Lines 165-185: composeSocialImage settles; on success the caption is    *)
(* written; a rejection or a failed write propagates out of runSocial (no  *)
(* try in the loop)                                                        *)
ComposeSettles ==
    /\ pc = "compose"
    /\ \E decoded \in BOOLEAN, captioned \in BOOLEAN :
         LET name == SpecOf(idx).name
             imaged == Append(fsops, FsOp("write", ImagePath(SpecOf(idx))))
             log == Append(imaged, FsOp("write", CaptionPath(name)))
             written == files \cup {<<platforms[idx], "image">>,
                                    <<platforms[idx], "caption">>}
             stored == WriteImage(disk, platforms[idx], smartCrop)
         IN IF ~decoded
            THEN /\ pc' = "done"
                 /\ outcome' = "compose_failed"
                 /\ UNCHANGED <<idx, files, fsops, results, gifResult, disk>>
            ELSE IF ~captioned
            THEN /\ pc' = "done"
                 /\ outcome' = "caption_failed"
                 /\ files' = files \cup {<<platforms[idx], "image">>}
                 /\ fsops' = imaged
                 /\ disk' = stored
                 /\ UNCHANGED <<idx, results, gifResult>>
            ELSE IF GifEnabled(env)
                 THEN /\ files' = written
                      /\ fsops' = log
                      /\ disk' = stored
                      /\ pc' = "gif"
                      /\ UNCHANGED <<idx, results, gifResult, outcome>>
                 ELSE FinishIteration(written, log, FALSE, stored) /\ UNCHANGED gifResult
    /\ UNCHANGED <<env, platforms, scpc, calls, smartCrop, composed>>
    /\ UNCHANGED harnessVars

(* Lines 186-208: generateCrossfadeGif settles with a result or null *)
GifSettles ==
    /\ pc = "gif"
    /\ \E fail \in CrossfadeFailures, partial \in BOOLEAN :
         LET out == CrossfadeOutcome(fail, partial)
             name == SpecOf(idx).name
             written == IF out.wrote THEN files \cup {<<platforms[idx], "transition">>}
                        ELSE files
             log == IF out.wrote THEN Append(fsops, FsOp("write", GifPath(name)))
                    ELSE fsops
             stored == IF out.wrote THEN WriteGif(disk, platforms[idx]) ELSE disk
         IN IF out.value = "threw"
            THEN /\ pc' = "done"
                 /\ outcome' = "gif_failed"
                 /\ files' = written
                 /\ fsops' = log
                 /\ disk' = stored
                 /\ UNCHANGED <<idx, results, gifResult>>
            ELSE /\ gifResult' = out.value
                 /\ FinishIteration(written, log, out.value = "result", stored)
    /\ UNCHANGED <<env, platforms, scpc, calls, smartCrop, composed>>
    /\ UNCHANGED harnessVars

----------------------------------------------------------------------------
(* Callers in front of the social engine, idle unless a specification      *)
(* starts them                                                             *)

LookupNames == PlatformNames \cup {"", "unknown", "tiktok"}

NoLookupInput == [name |-> "", list |-> <<>>]

NoLookupResult == [adapter |-> NoAdapter, validation |-> NoValidation]

IdleAdapter ==
    /\ lpc = "off"
    /\ lin = NoLookupInput
    /\ lout = NoLookupResult

NoBotSocialResult == [settled |-> "none", success |-> FALSE, outputs |-> <<>>, error |-> ""]

IdleRunner ==
    /\ bpc = "off"
    /\ bout = NoBotSocialResult

IdleRerun == runs = 1

MaxJobs == 2

MaxMsgs == 2

JobIds == 1..MaxJobs

(* chat_sessions row: state "none" stands for no row; job 0 for a null     *)
(* pending_job_id; stale for updated_at older than the session timeout     *)
DefaultService == <<"tree", " ", "trim">>

(* a notes column: NULL, or a text *)
NoNotes == [null |-> TRUE, text |-> <<>>]

(* service and notes of a missing row are what the handlers read for it:   *)
(* pending_service ?? "tree trim" and pending_notes ?? null                *)
NoSession == [state |-> "none", job |-> 0, stale |-> FALSE,
              service |-> DefaultService, notes |-> NoNotes]

(* jobs row and job folder: status "absent" stands for no row; composite   *)
(* for output/before_after.png; sent for the composite sent to the chat    *)
NoJob == [status |-> "absent", error_msg |-> "", composite |-> FALSE, sent |-> FALSE,
          service |-> DefaultService, notes |-> NoNotes]

NoUpdate == [kind |-> "none", id |-> 0, seq |-> 0]

(* the handler in flight: the await it is suspended at and its locals *)
NoHandler == [at |-> "idle", job |-> 0, service |-> DefaultService, notes |-> NoNotes]

IdleBot ==
    /\ up = FALSE
    /\ config = <<>>
    /\ session = NoSession
    /\ jobs = [j \in JobIds |-> NoJob]
    /\ nmsgs = 0
    /\ update = NoUpdate
    /\ handler = NoHandler
    /\ socialCalls = {}

IdleFront == IdleAdapter /\ IdleRunner /\ IdleRerun /\ IdleBot

----------------------------------------------------------------------------
(* Validation harness: parseAndValidate applied to each input *)

IdleCompose ==
    /\ cpc = "off"
    /\ cin = NoComposeInput
    /\ cout = NoComposeResult

IdleCrossfade ==
    /\ gpc = "off"
    /\ gin = NoCrossfadeInput
    /\ gout = NoCrossfadeResult

InitValidate ==
    /\ vpc = "input"
    /\ \/ \E pw \in PanelSizes, ph \in PanelSizes, w \in SrcSizes, h \in SrcSizes :
            \E f \in FocusValues(pw, ph) :
               \/ vin = BeforeFocus(f, w, h, pw, ph)
               \/ vin = AfterFocus(f, w, h, pw, ph)
       \/ vin \in TextFormInputs
    /\ vout = NullResult
    /\ IdleSocial
    /\ IdleCompose
    /\ IdleCrossfade
    /\ IdleFront

IdleValidate ==
    /\ vpc = "off"
    /\ vin = NoArgs
    /\ vout = NullResult

Validate ==
    /\ vpc = "input"
    /\ vout' = parseAndValidate(vin.text, vin.bw, vin.bh, vin.aw, vin.ah, vin.pw, vin.ph)
    /\ vpc' = "validated"
    /\ UNCHANGED vin
    /\ UNCHANGED <<socialVars, composeVars, crossfadeVars, frontVars>>

NextValidate == Validate

SpecValidate == InitValidate /\ [][NextValidate]_vars

----------------------------------------------------------------------------
(* Registry harness: getAdapter and validateSocialPlatforms applied to     *)
(* each name and each configured list                                      *)

InitLookup ==
    /\ lpc = "input"
    /\ \E name \in LookupNames, list \in PlatformLists :
         lin = [name |-> name, list |-> list]
    /\ lout = NoLookupResult
    /\ IdleSocial
    /\ IdleValidate
    /\ IdleCompose
    /\ IdleCrossfade
    /\ IdleRunner
    /\ IdleRerun
    /\ IdleBot

Lookup ==
    /\ lpc = "input"
    /\ lout' = [adapter |-> getAdapter(lin.name),
                validation |-> validateSocialPlatforms(lin.list)]
    /\ lpc' = "returned"
    /\ UNCHANGED lin
    /\ UNCHANGED <<socialVars, validateVars, composeVars, crossfadeVars,
                   runnerVars, rerunVars, botVars>>

NextLookup == Lookup

SpecLookup == InitLookup /\ [][NextLookup]_vars

----------------------------------------------------------------------------
(* Compositor harness: composeSocialImage applied to each input *)

InitCompose ==
    /\ cpc = "input"
    /\ \E spec \in ComposeSpecs :
         \E images \in ComposeSources(spec), advice \in ComposeAdvice(spec),
            decoded \in BOOLEAN :
            cin = [spec |-> spec, images |-> images, advice |-> advice,
                   decoded |-> decoded]
    /\ cout = NoComposeResult
    /\ IdleSocial
    /\ IdleValidate
    /\ IdleCrossfade
    /\ IdleFront

Compose ==
    /\ cpc = "input"
    /\ cout' = composeSocialImage(cin.spec, cin.images, cin.advice, cin.decoded)
    /\ cpc' = "composed"
    /\ UNCHANGED cin
    /\ UNCHANGED <<socialVars, validateVars, crossfadeVars, frontVars>>

NextCompose == Compose

SpecCompose == InitCompose /\ [][NextCompose]_vars

----------------------------------------------------------------------------
(* Crossfade harness: generateCrossfadeGif applied to each input *)

InitCrossfade ==
    /\ gpc = "input"
    /\ gin \in CrossfadeInputs
    /\ gout = NoCrossfadeResult
    /\ IdleSocial
    /\ IdleValidate
    /\ IdleCompose
    /\ IdleFront

Crossfade ==
    /\ gpc = "input"
    /\ gout' = generateCrossfadeGif(gin.options, gin.sample, gin.fail, gin.partial,
                                     gin.meta)
    /\ gpc' = "settled"
    /\ UNCHANGED gin
    /\ UNCHANGED <<socialVars, validateVars, composeVars, frontVars>>

NextCrossfade == Crossfade

SpecCrossfade == InitCrossfade /\ [][NextCrossfade]_vars

----------------------------------------------------------------------------
(* runBotSocial (bot/services/socialRunner.ts, lines 33-49) around the     *)
(* runSocial call. The bot runs without the crop-advice credential here,   *)
(* so every iteration takes the center-crop path.                          *)

RunnerEnvs == {e \in Envs : ~e.apiKey}

InitRunner ==
    /\ bpc = "call"
    /\ bout = NoBotSocialResult
    /\ env \in RunnerEnvs
    /\ platforms \in PlatformLists
    /\ pc = "uncalled"
    /\ idx = 0
    /\ scpc = "idle"
    /\ calls = [i \in 1..Len(platforms) |-> NoCall]
    /\ smartCrop = NullResult
    /\ composed = [i \in 1..Len(platforms) |-> <<>>]
    /\ files = {}
    /\ fsops = <<>>
    /\ results = <<>>
    /\ gifResult = "none"
    /\ outcome = "none"
    /\ disk = EmptyDisk
    /\ IdleValidate
    /\ IdleCompose
    /\ IdleCrossfade
    /\ IdleAdapter
    /\ IdleRerun
    /\ IdleBot

(* Lines 37-42: the empty list returns at once, else runSocial is called *)
RunBotSocialCalled ==
    /\ bpc = "call"
    /\ IF Len(platforms) = 0
       THEN /\ bout' = [NoBotSocialResult EXCEPT !.settled = "resolved",
                                                 !.success = TRUE]
            /\ bpc' = "returned"
            /\ pc' = pc
       ELSE /\ bpc' = "awaiting"
            /\ pc' = "start"
            /\ bout' = bout
    /\ UNCHANGED <<env, platforms, disk, idx, scpc, calls, smartCrop, composed, files,
                   fsops, results, gifResult, outcome>>
    /\ UNCHANGED <<validateVars, composeVars, crossfadeVars, adapterVars, rerunVars, botVars>>

MutRunnerCatch(error) ==
    IF error = "unknown_platform"
    THEN [NoBotSocialResult EXCEPT !.settled = "rejected", !.error = error]
    ELSE [NoBotSocialResult EXCEPT !.settled = "resolved", !.error = error]

(* Lines 44-48: the catch clause turns the error into a result *)
RunnerCatch(error) ==
    [NoBotSocialResult EXCEPT !.settled = "resolved", !.success = FALSE,
                              !.error = error]

(* Lines 42-48: the awaited runSocial promise settles *)
RunBotSocialSettles ==
    /\ bpc = "awaiting"
    /\ pc = "done"
    /\ bout' = IF outcome = "returned"
               THEN [NoBotSocialResult EXCEPT !.settled = "resolved",
                                              !.success = TRUE,
                                              !.outputs = results]
               ELSE RunnerCatch(outcome)
    /\ bpc' = "returned"
    /\ UNCHANGED socialVars
    /\ UNCHANGED <<validateVars, composeVars, crossfadeVars, adapterVars, rerunVars, botVars>>

NextRunner ==
    \/ RunBotSocialCalled
    \/ Start
    \/ LoopHead
    \/ ComposeSettles
    \/ GifSettles
    \/ RunBotSocialSettles

SpecRunner == InitRunner /\ [][NextRunner]_vars

----------------------------------------------------------------------------
(* Repeated runSocial calls on one job folder: what the earlier calls left *)
(* under output/social/ is still there when the next call starts           *)

MaxRuns == 2

RerunEnvs == {e \in Envs : e.genai /\ e.job = "ok" /\ e.images.after = Size(1000, 800)}

RerunLists == {<<p>> : p \in getAvailablePlatforms}

InitRerun ==
    /\ InitSocial
    /\ env \in RerunEnvs
    /\ platforms \in RerunLists
    /\ IdleValidate
    /\ IdleCompose
    /\ IdleCrossfade
    /\ IdleFront

(* The caller invokes runSocial again once the previous call has settled *)
Rerun ==
    /\ pc = "done"
    /\ runs < MaxRuns
    /\ runs' = runs + 1
    /\ env' \in RerunEnvs
    /\ platforms' \in RerunLists
    /\ pc' = "start"
    /\ idx' = 0
    /\ scpc' = "idle"
    /\ calls' = [i \in 1..1 |-> NoCall]
    /\ smartCrop' = NullResult
    /\ composed' = [i \in 1..1 |-> <<>>]
    /\ fsops' = <<>>
    /\ results' = <<>>
    /\ gifResult' = "none"
    /\ outcome' = "none"
    /\ UNCHANGED <<files, disk>>
    /\ UNCHANGED <<validateVars, composeVars, crossfadeVars, adapterVars, runnerVars, botVars>>

----------------------------------------------------------------------------
(* The Telegram bot: one chat, its session row, the jobs it opens, the      *)
(* photo handler suspended at its awaits, the session-timeout checker and  *)
(* the reconciliation at startup. Updates are handled one at a time, as    *)
(* bot.start() polls; the checker's interval and a crash of the process    *)
(* come at any moment. A text is a sequence of tokens, " " being white     *)
(* space; an empty caption stands for a photo without one.                 *)

BotConfigs == {<<>>, <<"nextdoor">>}

nonBotVars == <<socialVars, validateVars, composeVars, crossfadeVars, adapterVars,
                runnerVars, rerunVars>>

Inserted == {j \in JobIds : jobs[j].status # "absent"}

(* db/queries updateJobStatus, lines 50-65: an UPDATE by id, whatever the  *)
(* current status is                                                       *)
updateJobStatus(js, id, status, msg) ==
    IF id \in JobIds /\ js[id].status # "absent"
    THEN [js EXCEPT ![id].status = status, ![id].error_msg = msg]
    ELSE js

MutUpdateJobMetadata(js, id, service, notes) ==
    IF id \in JobIds /\ js[id].status # "absent"
    THEN [js EXCEPT ![id].service = service]
    ELSE js

(* db/queries updateJobMetadata, lines 67-76 *)
updateJobMetadata(js, id, service, notes) ==
    IF id \in JobIds /\ js[id].status # "absent"
    THEN [js EXCEPT ![id].service = service, ![id].notes = notes]
    ELSE js

(* db/queries upsertSession: the row is written with a new updated_at *)
upsertSession(state, job, service, notes) ==
    [state |-> state, job |-> job, stale |-> FALSE, service |-> service, notes |-> notes]

MutClearSession == [NoSession EXCEPT !.state = "idle", !.job = session.job]

clearSession == upsertSession("idle", 0, DefaultService, NoNotes)

Tokens == {" ", "tree", "Tree", "trim", "stump", "Stump", "removal", "big", "s"}

Lower ==
    [c \in Tokens |-> IF c = "Tree" THEN "tree" ELSE IF c = "Stump" THEN "stump" ELSE c]

toLowerCase(text) == [i \in 1..Len(text) |-> Lower[text[i]]]

RECURSIVE trimStart(_)
trimStart(text) ==
    IF text # <<>> /\ Head(text) = " " THEN trimStart(Tail(text)) ELSE text

RECURSIVE trimEnd(_)
trimEnd(text) ==
    IF text # <<>> /\ text[Len(text)] = " "
    THEN trimEnd(SubSeq(text, 1, Len(text) - 1))
    ELSE text

trim(text) == trimEnd(trimStart(text))

startsWith(text, prefix) ==
    Len(prefix) <= Len(text) /\ SubSeq(text, 1, Len(prefix)) = prefix

(* services/textParser SERVICE_KEYWORDS: the first four of the eight *)
SERVICE_KEYWORDS ==
    << <<"tree", " ", "removal">>, <<"tree", " ", "trim">>,
       <<"stump", " ", "removal">>, <<"stump", " ", "grinding">> >>

(* services/textParser parseServiceText: the first keyword the lowered,    *)
(* trimmed text starts with; the trimmed text as notes                     *)
parseServiceText(text) ==
    LET lower == trim(toLowerCase(text))
        hits == {k \in 1..Len(SERVICE_KEYWORDS) : startsWith(lower, SERVICE_KEYWORDS[k])}
        first == CHOOSE k \in hits : \A h \in hits : k <= h
    IN [service |-> IF hits = {} THEN DefaultService ELSE SERVICE_KEYWORDS[first],
        notes |-> [null |-> FALSE, text |-> trim(text)]]

(* the text a user sends, as a message or as a caption *)
Texts == { <<" ", "Stump", " ", "removal", " ", "big", " ">> }

Captions == {<<>>} \cup Texts

NextSeq == 1 - update.seq

InitBot ==
    /\ up = FALSE
    /\ config \in BotConfigs
    /\ session = NoSession
    /\ jobs = [j \in JobIds |-> NoJob]
    /\ nmsgs = 0
    /\ update = NoUpdate
    /\ handler = NoHandler
    /\ socialCalls = {}
    /\ IdleSocial
    /\ IdleValidate
    /\ IdleCompose
    /\ IdleCrossfade
    /\ IdleAdapter
    /\ IdleRunner
    /\ IdleRerun

MutReconcileOnStartup(ss, js) ==
    IF ss.state = "processing"
    THEN [session |-> clearSession,
          jobs |-> updateJobStatus(js, ss.job, "error", "Bot restarted during processing")]
    ELSE IF ss.state = "before_received"
    THEN [session |-> clearSession,
          jobs |-> updateJobStatus(js, ss.job, "error", "Session expired (bot restarted)")]
    ELSE [session |-> ss, jobs |-> js]

(* sessionTimeout.ts lines 17-71 *)
reconcileOnStartup(ss, js) ==
    IF ss.state = "processing"
    THEN [session |-> clearSession,
          jobs |-> IF ss.job # 0 /\ js[ss.job].status # "absent"
                   THEN IF js[ss.job].composite
                        THEN updateJobStatus(js, ss.job, "processed", "")
                        ELSE updateJobStatus(js, ss.job, "error",
                                             "Bot restarted during processing")
                   ELSE js]
    ELSE IF ss.state = "before_received"
    THEN [session |-> clearSession,
          jobs |-> IF ss.job # 0
                   THEN updateJobStatus(js, ss.job, "error",
                                        "Session expired (bot restarted)")
                   ELSE js]
    ELSE [session |-> ss, jobs |-> js]

(* main, lines 11-32 and 69: the configured platforms are validated, the   *)
(* stuck sessions reconciled, the checker armed and polling started        *)
Startup ==
    /\ ~up
    /\ ~validateSocialPlatforms(config).threw
    /\ session' = reconcileOnStartup(session, jobs).session
    /\ jobs' = reconcileOnStartup(session, jobs).jobs
    /\ up' = TRUE
    /\ UNCHANGED <<config, nmsgs, update, handler, socialCalls>>
    /\ UNCHANGED nonBotVars

(* The process dies: a handler in flight is gone; a pipeline that was      *)
(* running may or may not have written output/before_after.png             *)
Crash ==
    /\ up
    /\ up' = FALSE
    /\ handler' = NoHandler
    /\ IF handler.at = "pipeline"
       THEN \E written \in BOOLEAN :
              jobs' = [jobs EXCEPT ![handler.job].composite = @ \/ written]
       ELSE jobs' = jobs
    /\ UNCHANGED <<config, session, nmsgs, update, socialCalls>>
    /\ UNCHANGED nonBotVars

(* The session timeout elapses since the row was last written *)
TimePasses ==
    /\ session.state # "none"
    /\ ~session.stale
    /\ session' = [session EXCEPT !.stale = TRUE]
    /\ UNCHANGED <<up, config, jobs, nmsgs, update, handler, socialCalls>>
    /\ UNCHANGED nonBotVars

MutGetStaleSessions == session.state = "before_received" /\ session.stale

(* db/queries getStaleSessions, lines 146-157: every state but idle *)
getStaleSessions == session.state \notin {"none", "idle"} /\ session.stale

(* sessionTimeout.ts lines 82-113: the interval callback *)
SessionTimeoutCheck ==
    /\ up
    /\ getStaleSessions
    /\ jobs' = IF session.job # 0
               THEN updateJobStatus(jobs, session.job, "error", "Session timed out")
               ELSE jobs
    /\ session' = clearSession
    /\ UNCHANGED <<up, config, nmsgs, update, handler, socialCalls>>
    /\ UNCHANGED nonBotVars

MutCancelled == [session |-> clearSession, jobs |-> jobs]

(* commands.ts lines 76-82: the pending job is cancelled *)
Cancelled ==
    [session |-> clearSession,
     jobs |-> IF session.job # 0
              THEN updateJobStatus(jobs, session.job, "error", "Cancelled by user")
              ELSE jobs]

(* commands.ts lines 58-84 *)
handleCancel ==
    /\ up
    /\ handler.at = "idle"
    /\ update' = [kind |-> "cancel", id |-> 0, seq |-> NextSeq]
    /\ IF session.state \in {"none", "idle", "processing"}
       THEN UNCHANGED <<session, jobs>>
       ELSE session' = Cancelled.session /\ jobs' = Cancelled.jobs
    /\ UNCHANGED <<up, config, nmsgs, handler, socialCalls>>
    /\ UNCHANGED nonBotVars

MutLogMessage(m) == TRUE

(* db/queries logMessage, lines 176-204: false when (chat_id, message_id,  *)
(* inbound) is already in telegram_messages                                *)
logMessage(m) == m > nmsgs

(* handlers/photo.ts lines 96-114: a caption is saved to the session, and  *)
(* to the pending job when there is one                                    *)
Captioned(captionText) ==
    LET parsed == parseServiceText(captionText)
    IN IF captionText = <<>>
       THEN [session |-> session, jobs |-> jobs]
       ELSE IF session.state = "before_received"
       THEN [session |-> upsertSession(session.state, session.job,
                                       parsed.service, parsed.notes),
             jobs |-> IF session.job # 0
                      THEN updateJobMetadata(jobs, session.job,
                                             parsed.service, parsed.notes)
                      ELSE jobs]
       ELSE [session |-> upsertSession("idle", 0, parsed.service, parsed.notes),
             jobs |-> jobs]

(* handlers/photo.ts lines 61-123, 125-153 and 181-213: from the update to *)
(* the first await of the handler                                          *)
handleIncomingMedia(m, captionText) ==
    /\ up
    /\ handler.at = "idle"
    /\ update' = [kind |-> "photo", id |-> m, seq |-> NextSeq]
    /\ IF ~logMessage(m)
       THEN UNCHANGED <<session, jobs, nmsgs, handler>>
       ELSE /\ nmsgs' = IF m > nmsgs THEN m ELSE nmsgs
            /\ IF session.state = "processing"
               THEN UNCHANGED <<session, jobs, handler>>
               ELSE LET saved == Captioned(captionText)
                        service == saved.session.service
                        notes == saved.session.notes
                    IN IF session.state \in {"none", "idle"}
                       THEN /\ Cardinality(Inserted) < MaxJobs
                            /\ LET j == Cardinality(Inserted) + 1
                               IN /\ jobs' = [saved.jobs EXCEPT ![j] =
                                                [NoJob EXCEPT !.status = "pending",
                                                              !.service = service,
                                                              !.notes = notes]]
                                  /\ handler' = [at |-> "before_download", job |-> j,
                                                 service |-> service, notes |-> notes]
                            /\ session' = saved.session
                       ELSE IF session.job = 0 \/ jobs[session.job].status = "absent"
                       THEN /\ session' = clearSession
                            /\ jobs' = saved.jobs
                            /\ handler' = handler
                       ELSE /\ session' = upsertSession("processing", session.job,
                                                        service, notes)
                            /\ jobs' = updateJobMetadata(saved.jobs, session.job,
                                                         service, notes)
                            /\ handler' = [at |-> "after_download", job |-> session.job,
                                           service |-> service, notes |-> notes]
    /\ UNCHANGED <<up, config, socialCalls>>
    /\ UNCHANGED nonBotVars

MutHandleText(text) ==
    /\ up
    /\ handler.at = "idle"
    /\ update' = [kind |-> "text", id |-> 0, seq |-> NextSeq]
    /\ session' = upsertSession(session.state, session.job,
                                parseServiceText(text).service,
                                parseServiceText(text).notes)
    /\ UNCHANGED <<up, config, jobs, nmsgs, handler, socialCalls>>
    /\ UNCHANGED nonBotVars

(* handlers/text.ts lines 11-55 *)
handleText(text) ==
    /\ up
    /\ handler.at = "idle"
    /\ update' = [kind |-> "text", id |-> 0, seq |-> NextSeq]
    /\ LET parsed == parseServiceText(text)
       IN IF session.state = "processing"
          THEN UNCHANGED <<session, jobs>>
          ELSE IF session.state = "before_received"
          THEN /\ session' = upsertSession("before_received", session.job,
                                           parsed.service, parsed.notes)
               /\ jobs' = IF session.job # 0
                          THEN updateJobMetadata(jobs, session.job,
                                                 parsed.service, parsed.notes)
                          ELSE jobs
          ELSE /\ session' = upsertSession("idle", 0, parsed.service, parsed.notes)
               /\ jobs' = jobs
    /\ UNCHANGED <<up, config, nmsgs, handler, socialCalls>>
    /\ UNCHANGED nonBotVars

MutBeforeDownloadSettles ==
    /\ up
    /\ handler.at = "before_download"
    /\ session' = upsertSession("processing", handler.job, handler.service, handler.notes)
    /\ handler' = NoHandler
    /\ UNCHANGED <<up, config, jobs, nmsgs, update, socialCalls>>
    /\ UNCHANGED nonBotVars

(* handlers/photo.ts lines 154-178 *)
BeforeDownloadSettles ==
    /\ up
    /\ handler.at = "before_download"
    /\ \E ok \in BOOLEAN :
         IF ok
         THEN /\ session' = upsertSession("before_received", handler.job,
                                           handler.service, handler.notes)
              /\ jobs' = jobs
         ELSE /\ jobs' = updateJobStatus(jobs, handler.job, "error",
                                         "Failed to download before photo")
              /\ session' = clearSession
    /\ handler' = NoHandler
    /\ UNCHANGED <<up, config, nmsgs, update, socialCalls>>
    /\ UNCHANGED nonBotVars

(* handlers/photo.ts lines 211-246: the download, then the status and the  *)
(* "Processing" reply                                                      *)
AfterDownloadSettles ==
    /\ up
    /\ handler.at = "after_download"
    /\ \E ok \in BOOLEAN, replied \in BOOLEAN :
         IF ok
         THEN /\ jobs' = updateJobStatus(jobs, handler.job, "processing", "")
              /\ session' = session
              /\ handler' = IF replied THEN [handler EXCEPT !.at = "pipeline"]
                            ELSE NoHandler
         ELSE /\ jobs' = updateJobStatus(jobs, handler.job, "error",
                                         "Failed to download after photo")
              /\ session' = clearSession
              /\ handler' = NoHandler
    /\ UNCHANGED <<up, config, nmsgs, update, socialCalls>>
    /\ UNCHANGED nonBotVars

(* handlers/photo.ts lines 249-252 and 273-274: runPipeline settles; a     *)
(* failed run may have written the composite before it failed              *)
PipelineSettles ==
    /\ up
    /\ handler.at = "pipeline"
    /\ \E success \in BOOLEAN, written \in BOOLEAN :
         /\ success => written
         /\ LET filed == [jobs EXCEPT ![handler.job].composite = @ \/ written]
            IN IF success
               THEN /\ jobs' = updateJobStatus(filed, handler.job, "processed", "")
                    /\ handler' = [handler EXCEPT !.at = "send"]
               ELSE /\ jobs' = updateJobStatus(filed, handler.job, "error",
                                               "Pipeline failed")
                    /\ handler' = [handler EXCEPT !.at = "reply_error"]
    /\ UNCHANGED <<up, config, session, nmsgs, update, socialCalls>>
    /\ UNCHANGED nonBotVars

(* handlers/photo.ts lines 254-286: the composite or the error is sent to  *)
(* the chat and the session cleared, unless the last reply throws          *)
ReplySettles ==
    /\ up
    /\ handler.at \in {"send", "reply_error"}
    /\ \E how \in {"delivered", "fallback", "threw"} :
         /\ handler.at = "reply_error" => how # "fallback"
         /\ jobs' = IF handler.at = "send" /\ how = "delivered"
                    THEN [jobs EXCEPT ![handler.job].sent = TRUE]
                    ELSE jobs
         /\ session' = IF how = "threw" THEN session ELSE clearSession
    /\ handler' = NoHandler
    /\ UNCHANGED <<up, config, nmsgs, update, socialCalls>>
    /\ UNCHANGED nonBotVars

NextBot ==
    \/ Startup
    \/ Crash
    \/ TimePasses
    \/ SessionTimeoutCheck
    \/ handleCancel
    \/ \E m \in 1..MaxMsgs, captionText \in Captions :
         m <= nmsgs + 1 /\ handleIncomingMedia(m, captionText)
    \/ \E text \in Texts : handleText(text)
    \/ BeforeDownloadSettles
    \/ AfterDownloadSettles
    \/ PipelineSettles
    \/ ReplySettles

SpecBot == InitBot /\ [][NextBot]_vars

(* The session timeout elapses, the interval of the checker fires while    *)
(* the process is up, and a process that died is started again             *)
FairBot ==
    /\ SpecBot
    /\ WF_vars(TimePasses)
    /\ WF_vars(SessionTimeoutCheck)
    /\ WF_vars(Startup)

----------------------------------------------------------------------------
Init == InitSocial /\ IdleValidate /\ IdleCompose /\ IdleCrossfade /\ IdleFront

ServiceEvent ==
    \E i \in 1..Len(platforms) : ServiceResolves(i) \/ ServiceRejects(i) \/ TimeoutFires(i)

Next ==
    \/ Start
    \/ LoopHead
    \/ ImportSettles
    \/ MetadataSettles
    \/ DownscaleSettles
    \/ ServiceEvent
    \/ ComposeSettles
    \/ GifSettles

Spec == Init /\ [][Next]_vars

NextRerun == Next \/ Rerun

SpecRerun == InitRerun /\ [][NextRerun]_vars

(* Awaited file and module operations settle, and an armed timer fires     *)
(* after GEMINI_TIMEOUT_MS unless it is cleared; the external service is   *)
(* under no obligation to answer.                                          *)
FairSpec ==
    /\ Spec
    /\ WF_vars(Start)
    /\ WF_vars(LoopHead)
    /\ WF_vars(ImportSettles)
    /\ WF_vars(MetadataSettles)
    /\ WF_vars(DownscaleSettles)
    /\ WF_vars(ComposeSettles)
    /\ WF_vars(GifSettles)
    /\ \A i \in 1..MaxPlatforms : WF_vars(TimeoutFires(i))

----------------------------------------------------------------------------
(* Vocabulary of the properties below, written from the geometry itself    *)

NonNegInt(v) == v.k = "number" /\ v.h >= 0 /\ v.h % 2 = 0

(* The JSON object carried by a text, if any *)
TextObject(text) ==
    LET js == SelectSeq(text, LAMBDA ch : ch.c = "json")
    IN IF js = <<>> THEN NoObject ELSE js[1].obj

LoneJson(text) == Len(text) = 1 /\ text[1].c = "json"

FieldsValid(c) ==
    /\ c.k = "object"
    /\ NonNegInt(c.left) /\ NonNegInt(c.top) /\ NonNegInt(c.width) /\ NonNegInt(c.height)

SizeExact(c, pw, ph) == c.width = JInt(pw) /\ c.height = JInt(ph)

Contained(c, w, h) == c.left.h + c.width.h <= 2 * w /\ c.top.h + c.height.h <= 2 * h

RectValid(c, w, h, pw, ph) == FieldsValid(c) /\ SizeExact(c, pw, ph) /\ Contained(c, w, h)

AnchorPresent(p) == p.k # "undefined"

AnchorInSource(p, w, h) ==
    /\ p.k = "object"
    /\ NonNegInt(p.x) /\ NonNegInt(p.y)
    /\ p.x.h < 2 * w /\ p.y.h < 2 * h

AnchorInRect(p, c) ==
    /\ c.left.h <= p.x.h /\ p.x.h < c.left.h + c.width.h
    /\ c.top.h <= p.y.h /\ p.y.h < c.top.h + c.height.h

AnchorValid(p, c, w, h) == AnchorInSource(p, w, h) /\ AnchorInRect(p, c)

VObj == TextObject(vin.text)

Validated == vpc = "validated"

SameRect(r, c) ==
    /\ 2 * r.left = c.left.h /\ 2 * r.top = c.top.h
    /\ 2 * r.width = c.width.h /\ 2 * r.height = c.height.h

----------------------------------------------------------------------------
(* C1: parseAndValidate returns null whenever the before or the after      *)
(* rectangle has a width other than panelWidth or a height other than      *)
(* panelHeight; every non-null result carries the proposed rectangles      *)
(* unscaled, both exactly panelWidth x panelHeight.                        *)
C1_ExactPanelSize ==
    Validated =>
      /\ (~SizeExact(VObj.before, vin.pw, vin.ph) \/ ~SizeExact(VObj.after, vin.pw, vin.ph))
            => ~vout.ok
      /\ vout.ok =>
            /\ vout.before.width = vin.pw /\ vout.after.width = vin.pw
            /\ vout.before.height = vin.ph /\ vout.after.height = vin.ph
            /\ SameRect(vout.before, VObj.before) /\ SameRect(vout.after, VObj.after)

(* A rectangle inside the source whose only fault is a width below the panel width, rejected *)
C1_Witness ==
    /\ Validated /\ LoneJson(vin.text)
    /\ FieldsValid(VObj.before) /\ Contained(VObj.before, vin.bw, vin.bh)
    /\ VObj.before.width.h < 2 * vin.pw /\ VObj.before.height = JInt(vin.ph)
    /\ RectValid(VObj.after, vin.aw, vin.ah, vin.pw, vin.ph)
    /\ ~vout.ok

(* C2: without anchors, and with rectangles that pass the field and the    *)
(* exact-size checks, the response is rejected if and only if a rectangle  *)
(* extends past its own source image; ending on the edge is accepted.      *)
C2_Containment ==
    (/\ Validated /\ LoneJson(vin.text)
     /\ ~AnchorPresent(VObj.before_trunk_base) /\ ~AnchorPresent(VObj.after_trunk_base)
     /\ FieldsValid(VObj.before) /\ FieldsValid(VObj.after)
     /\ SizeExact(VObj.before, vin.pw, vin.ph) /\ SizeExact(VObj.after, vin.pw, vin.ph))
    => (~vout.ok <=>
          \/ ToInt(VObj.before.left) + vin.pw > vin.bw
          \/ ToInt(VObj.before.top) + vin.ph > vin.bh
          \/ ToInt(VObj.after.left) + vin.pw > vin.aw
          \/ ToInt(VObj.after.top) + vin.ph > vin.ah)

(* A rectangle with left > 0 and top > 0 ending exactly on both source edges, accepted *)
C2_Witness ==
    /\ Validated /\ LoneJson(vin.text)
    /\ ~AnchorPresent(VObj.before_trunk_base) /\ ~AnchorPresent(VObj.after_trunk_base)
    /\ FieldsValid(VObj.before) /\ SizeExact(VObj.before, vin.pw, vin.ph)
    /\ VObj.before.left.h > 0 /\ VObj.before.top.h > 0
    /\ ToInt(VObj.before.left) + vin.pw = vin.bw
    /\ ToInt(VObj.before.top) + vin.ph = vin.bh
    /\ vout.ok

(* C3: with valid rectangles, an anchor that is inside its source image is *)
(* accepted exactly when it lies in its paired rectangle under half-open   *)
(* bounds (left <= x < left+width, top <= y < top+height).                 *)
C3_AnchorHalfOpen ==
    (/\ Validated /\ LoneJson(vin.text)
     /\ RectValid(VObj.before, vin.bw, vin.bh, vin.pw, vin.ph)
     /\ RectValid(VObj.after, vin.aw, vin.ah, vin.pw, vin.ph))
    => /\ (/\ AnchorInSource(VObj.before_trunk_base, vin.bw, vin.bh)
           /\ AnchorPresent(VObj.after_trunk_base)
                => AnchorValid(VObj.after_trunk_base, VObj.after, vin.aw, vin.ah))
          => (vout.ok <=> AnchorInRect(VObj.before_trunk_base, VObj.before))
       /\ (/\ AnchorInSource(VObj.after_trunk_base, vin.aw, vin.ah)
           /\ AnchorPresent(VObj.before_trunk_base)
                => AnchorValid(VObj.before_trunk_base, VObj.before, vin.bw, vin.bh))
          => (vout.ok <=> AnchorInRect(VObj.after_trunk_base, VObj.after))

(* An anchor at x = left+width that is still inside the source image, rejected *)
C3_Witness ==
    /\ Validated /\ LoneJson(vin.text)
    /\ RectValid(VObj.before, vin.bw, vin.bh, vin.pw, vin.ph)
    /\ RectValid(VObj.after, vin.aw, vin.ah, vin.pw, vin.ph)
    /\ AnchorInSource(VObj.before_trunk_base, vin.bw, vin.bh)
    /\ VObj.before_trunk_base.x.h = VObj.before.left.h + VObj.before.width.h
    /\ VObj.before_trunk_base.y = VObj.before.top
    /\ ~AnchorPresent(VObj.after_trunk_base)
    /\ ~vout.ok

(* C4: with both rectangles valid, a present anchor that is invalid makes  *)
(* the whole result null; the result never drops a present anchor; absent  *)
(* anchors are accepted and stay absent.                                   *)
C4_BadAnchorRejectsAll ==
    (/\ Validated /\ LoneJson(vin.text)
     /\ RectValid(VObj.before, vin.bw, vin.bh, vin.pw, vin.ph)
     /\ RectValid(VObj.after, vin.aw, vin.ah, vin.pw, vin.ph))
    => /\ (/\ AnchorPresent(VObj.before_trunk_base)
           /\ ~AnchorValid(VObj.before_trunk_base, VObj.before, vin.bw, vin.bh)) => ~vout.ok
       /\ (/\ AnchorPresent(VObj.after_trunk_base)
           /\ ~AnchorValid(VObj.after_trunk_base, VObj.after, vin.aw, vin.ah)) => ~vout.ok
       /\ vout.ok =>
            /\ vout.beforeTrunkBase.present <=> AnchorPresent(VObj.before_trunk_base)
            /\ vout.afterTrunkBase.present <=> AnchorPresent(VObj.after_trunk_base)
       /\ (~AnchorPresent(VObj.before_trunk_base) /\ ~AnchorPresent(VObj.after_trunk_base))
            => vout.ok

(* Valid rectangles, a valid before anchor and an after anchor with a non-integer x, rejected *)
C4_Witness ==
    /\ Validated /\ LoneJson(vin.text)
    /\ RectValid(VObj.before, vin.bw, vin.bh, vin.pw, vin.ph)
    /\ RectValid(VObj.after, vin.aw, vin.ah, vin.pw, vin.ph)
    /\ AnchorValid(VObj.before_trunk_base, VObj.before, vin.bw, vin.bh)
    /\ VObj.after_trunk_base.k = "object"
    /\ VObj.after_trunk_base.x = JNum(1)
    /\ ~vout.ok

(* C5: a missing before or after object, or any of the eight fields        *)
(* missing, not a number, not an integer or negative, gives null; every    *)
(* non-null result holds the eight proposed values, non-negative integers. *)
C5_FieldsNonNegativeIntegers ==
    Validated =>
      /\ (~FieldsValid(VObj.before) \/ ~FieldsValid(VObj.after)) => ~vout.ok
      /\ vout.ok =>
            /\ SameRect(vout.before, VObj.before) /\ SameRect(vout.after, VObj.after)
            /\ \A r \in {vout.before, vout.after} :
                 r.left >= 0 /\ r.top >= 0 /\ r.width >= 0 /\ r.height >= 0

(* An in-bounds, panel-sized after rectangle whose left is 0.5, rejected *)
C5_Witness ==
    /\ Validated /\ LoneJson(vin.text)
    /\ RectValid(VObj.before, vin.bw, vin.bh, vin.pw, vin.ph)
    /\ VObj.after.k = "object"
    /\ VObj.after.left = JNum(1)
    /\ NonNegInt(VObj.after.top)
    /\ SizeExact(VObj.after, vin.pw, vin.ph)
    /\ ~vout.ok

----------------------------------------------------------------------------
(* Vocabulary for the getSmartCrop and runSocial properties *)

Iterations == DOMAIN calls

PanelW(i) == IF Registry[platforms[i]].layout = "side-by-side"
             THEN Registry[platforms[i]].width \div 2 ELSE Registry[platforms[i]].width

PanelH(i) == IF Registry[platforms[i]].layout = "side-by-side"
             THEN Registry[platforms[i]].height ELSE Registry[platforms[i]].height \div 2

(* The text holds one JSON object, bare or wrapped in prose or fences, that *)
(* meets every geometric requirement for iteration i                        *)
Passes(text, i) ==
    LET o == TextObject(text)
    IN /\ \A n \in 1..Len(text) : text[n].c \in {"json", "prose", "fence"}
       /\ Len(SelectSeq(text, LAMBDA ch : ch.c = "json")) = 1
       /\ RectValid(o.before, env.images.before.w, env.images.before.h, PanelW(i), PanelH(i))
       /\ RectValid(o.after, env.images.after.w, env.images.after.h, PanelW(i), PanelH(i))
       /\ AnchorPresent(o.before_trunk_base) =>
            AnchorValid(o.before_trunk_base, o.before, env.images.before.w, env.images.before.h)
       /\ AnchorPresent(o.after_trunk_base) =>
            AnchorValid(o.after_trunk_base, o.after, env.images.after.w, env.images.after.h)

TooSmall(i) ==
    \/ env.images.before.w < PanelW(i) \/ env.images.before.h < PanelH(i)
    \/ env.images.after.w < PanelW(i) \/ env.images.after.h < PanelH(i)

CheckOrder == <<"key", "import", "size">>

CoverCall == [advice |-> NullResult, mode |-> "cover"]

----------------------------------------------------------------------------
(* C6: the getSmartCrop promise never rejects; it is fulfilled with a       *)
(* non-null value only when the service answered before the timeout with a  *)
(* response that passes validation, and with null in every other case.      *)
C6_GetSmartCropNeverThrows ==
    /\ outcome # "smartcrop_rejected"
    /\ \A i \in Iterations :
         /\ calls[i].sc # "rejected"
         /\ (pc \in {"compose", "gif"} /\ idx = i) => calls[i].sc = "fulfilled"
         /\ (calls[i].sc = "fulfilled" /\ calls[i].result.ok)
               => (calls[i].promise = "fulfilled" /\ Passes(calls[i].text, i))
         /\ (calls[i].sc = "fulfilled" /\ ~(calls[i].promise = "fulfilled"
                                            /\ Passes(calls[i].text, i)))
               => calls[i].result = NullResult

(* The client library failed to load and getSmartCrop was fulfilled with null *)
C6_Witness ==
    \E i \in Iterations :
      /\ env.apiKey /\ ~env.genai
      /\ calls[i].trace = <<"key", "import">>
      /\ calls[i].sc = "fulfilled"
      /\ calls[i].result = NullResult

(* C7: the service is called only after the credential check, the client    *)
(* load and the size check have all passed, in that order; when one of them *)
(* fails getSmartCrop returns null and the service is never called.         *)
C7_ShortCircuitBeforeService ==
    \A i \in Iterations :
      /\ calls[i].svc # "none" =>
           /\ env.apiKey /\ env.genai /\ ~TooSmall(i)
           /\ calls[i].trace = CheckOrder
      /\ Len(calls[i].trace) <= Len(CheckOrder)
      /\ calls[i].trace = SubSeq(CheckOrder, 1, Len(calls[i].trace))
      /\ (calls[i].sc = "fulfilled" /\ (~env.apiKey \/ ~env.genai \/ TooSmall(i)))
           => (calls[i].svc = "none" /\ calls[i].result = NullResult)

(* Credential and client present, after image smaller than the panel: null, no call *)
C7_Witness ==
    \E i \in Iterations :
      /\ env.apiKey /\ env.genai
      /\ platforms[i] \in DOMAIN Registry
      /\ env.images.after.w < PanelW(i) /\ env.images.before.w >= PanelW(i)
      /\ calls[i].trace = CheckOrder
      /\ calls[i].sc = "fulfilled"
      /\ calls[i].svc = "none"

(* C8: when the timer fires first getSmartCrop returns null and the         *)
(* compositor runs with cover-fit; whatever arrives later changes neither   *)
(* the withTimeout promise, the value getSmartCrop returned nor the crop    *)
(* the compositor used; when the service settles first the timer is         *)
(* cleared and never fires.                                                 *)
C8_TimeoutState ==
    \A i \in Iterations :
      /\ calls[i].promise = "timeout" =>
           /\ calls[i].sc = "fulfilled" /\ calls[i].result = NullResult
           /\ composed[i] = <<CoverCall>>
      /\ calls[i].timer = "fired" <=> calls[i].promise = "timeout"
      /\ calls[i].promise \in {"fulfilled", "error"} => calls[i].timer = "cleared"

C8_TimeoutStep ==
    \A i \in Iterations :
      /\ calls[i].promise \notin {"none", "pending"} => calls'[i].promise = calls[i].promise
      /\ calls[i].sc = "fulfilled" =>
           /\ calls'[i].sc = "fulfilled"
           /\ calls'[i].result = calls[i].result
           /\ composed'[i] = composed[i]
      /\ calls[i].timer = "cleared" => calls'[i].timer = "cleared"

C8_TimeoutDiscardsLateResult == []C8_TimeoutState /\ [][C8_TimeoutStep]_vars

(* A response that would have passed validation arrived after the timeout *)
C8_Witness ==
    \E i \in Iterations :
      /\ calls[i].promise = "timeout"
      /\ calls[i].svc = "resolved"
      /\ Passes(calls[i].text, i)
      /\ calls[i].result = NullResult
      /\ composed[i] = <<CoverCall>>

(* C9: however the crop-advice step of an iteration ends, the compositor is *)
(* invoked exactly once for it, with the validated advice (extract) or with *)
(* none (cover-fit); nothing is retried, and every iteration that starts    *)
(* for a registered platform reaches the compositor.                        *)
C9_ComposedOnce ==
    \A i \in Iterations :
      /\ Len(composed[i]) <= 1
      /\ calls[i].sc \in {"none", "pending"} => composed[i] = <<>>
      /\ calls[i].sc \notin {"none", "pending"} =>
           /\ Len(composed[i]) = 1
           /\ composed[i][1].advice = calls[i].result
           /\ composed[i][1].mode = "cover" <=> composed[i][1].advice = NullResult
           /\ composed[i][1].mode = "extract" =>
                /\ composed[i][1].advice.ok
                /\ Passes(calls[i].text, i)
                /\ SameRect(composed[i][1].advice.before, TextObject(calls[i].text).before)
                /\ SameRect(composed[i][1].advice.after, TextObject(calls[i].text).after)

C9_CropChainEndsInCompose ==
    /\ []C9_ComposedOnce
    /\ \A i \in 1..MaxPlatforms :
         (pc = "loop" /\ idx = i /\ platforms[i] \in DOMAIN Registry)
            ~> (i \in Iterations /\ Len(composed[i]) = 1)

(* The service answered in time with valid advice and the compositor extracts it *)
C9_Witness ==
    \E i \in Iterations :
      /\ pc = "compose" /\ idx = i
      /\ calls[i].promise = "fulfilled"
      /\ Len(composed[i]) = 1
      /\ composed[i][1].mode = "extract"
      /\ composed[i][1].advice.before.left = 100

(* C10: when composing one platform of the list fails, every other          *)
(* platform of the list still ends with its image, caption and manifest.    *)
C10_SiblingsStillProcessed ==
    (/\ pc = "done" /\ outcome = "compose_failed"
     /\ \A j \in 1..Len(platforms) : platforms[j] \in DOMAIN Registry)
    => \A j \in 1..Len(platforms) :
         platforms[j] # platforms[idx] =>
           {<<platforms[j], "image">>, <<platforms[j], "caption">>,
            <<platforms[j], "manifest">>} \subseteq files

----------------------------------------------------------------------------
(* Vocabulary of the output claims: the files of one platform directory    *)
(* and the operations recorded on them                                     *)

SocialRoot == <<"jobs", "j1", "output", "social">>

ArtifactPath(p, file) == SocialRoot \o <<p, file>>

IsManifestWrite(k) ==
    /\ fsops[k][1] = "write"
    /\ Len(fsops[k][2]) = Len(SocialRoot) + 2
    /\ SubSeq(fsops[k][2], 1, Len(SocialRoot)) = SocialRoot
    /\ fsops[k][2][Len(SocialRoot) + 2] = "manifest.json"

ManifestWrites == {k \in DOMAIN fsops : IsManifestWrite(k)}

PlatformOf(k) == fsops[k][2][Len(SocialRoot) + 1]

(* The last manifest write before operation k (0 if there is none): the     *)
(* operations after it and before k belong to the iteration that made k     *)
PreviousManifest(k) ==
    IF \E j \in ManifestWrites : j < k
    THEN CHOOSE j \in ManifestWrites : j < k /\ \A l \in ManifestWrites : l < k => l <= j
    ELSE 0

WrittenBetween(s, k, path) ==
    \E j \in (s + 1)..(k - 1) : fsops[j][1] = "write" /\ fsops[j][2] = path

HasTransitionBlock(k) ==
    \E b \in DOMAIN fsops[k][3] : fsops[k][3][b] = "transition"

Failed == pc = "done" /\ outcome # "returned"

----------------------------------------------------------------------------
(* C11: within one platform iteration manifest.json is written only after   *)
(* the image and the caption have been written, and after transition.gif    *)
(* when the manifest carries a transition block; nothing of that iteration  *)
(* is written after the manifest; an iteration in which a step fails writes *)
(* no manifest (the manifests written are those of the completed            *)
(* iterations).                                                             *)
C11_ManifestWrittenLast ==
    /\ \A k \in ManifestWrites :
         LET s == PreviousManifest(k)
             p == PlatformOf(k)
         IN /\ WrittenBetween(s, k, ArtifactPath(p, "image.jpg"))
            /\ WrittenBetween(s, k, ArtifactPath(p, "caption.txt"))
            /\ HasTransitionBlock(k) => WrittenBetween(s, k, ArtifactPath(p, "transition.gif"))
            /\ \A j \in (s + 1)..(k - 1) :
                 fsops[j][1] = "write" => fsops[j][2] \in {ArtifactPath(p, "image.jpg"),
                                                           ArtifactPath(p, "caption.txt"),
                                                           ArtifactPath(p, "transition.gif")}
    /\ Cardinality(ManifestWrites) = Len(results)
    /\ Failed => Cardinality(ManifestWrites) = (IF idx = 0 THEN 0 ELSE idx - 1)

(* A first platform completed with a transition block in its manifest, and  *)
(* the caption write of the second platform failed                          *)
C11_Witness ==
    /\ pc = "done" /\ outcome = "caption_failed" /\ idx = 2
    /\ Cardinality(ManifestWrites) = 1
    /\ \E k \in ManifestWrites : HasTransitionBlock(k)

----------------------------------------------------------------------------
Named == {platforms[j] : j \in 1..Len(platforms)}

AllRegistered == \A j \in 1..Len(platforms) : platforms[j] \in DOMAIN Registry

(* The platform whose iteration ended the run with an error, if any *)
FailedPlatform == IF Failed /\ idx \in 1..Len(platforms) THEN {platforms[idx]} ELSE {}

Populated(p) ==
    {<<p, "dir">>, <<p, "image">>, <<p, "caption">>, <<p, "manifest">>} \subseteq files

(* C12: the populated platform directories and their files depend on the    *)
(* set of platform names only, not on their order, also when one platform   *)
(* fails. In the ordering that puts the failing platform last every other   *)
(* named platform is complete, so the same must hold at the end of every    *)
(* run: each named platform other than the one whose step failed has its    *)
(* directory, image, caption and manifest, and no other directory exists.   *)
C12_OrderInsensitive ==
    (pc = "done" /\ AllRegistered /\ (outcome = "returned" \/ idx >= 1)) =>
       /\ \A f \in files : f[1] = "" \/ f[1] \in Named
       /\ \A p \in Named : p \notin FailedPlatform => Populated(p)

----------------------------------------------------------------------------
Creates(k) == fsops[k][1] \in {"mkdir", "write"}

NothingCreated == files = {} /\ \A k \in DOMAIN fsops : ~Creates(k)

NoPlatformProcessed ==
    /\ idx = 0 /\ results = <<>>
    /\ \A i \in DOMAIN calls : calls[i].sc = "none" /\ composed[i] = <<>>

(* C13: when output/manifest.json is missing, runSocial fails with the      *)
(* "manifest not found, run the base pipeline first" error; all it has done *)
(* is one existence test of that file: no directory or file is created, no  *)
(* platform is processed and the test is not repeated.                      *)
C13_UpstreamMissingIsFatal ==
    env.job = "no_manifest" =>
       /\ NothingCreated /\ NoPlatformProcessed
       /\ pc \in {"start", "done"}
       /\ pc = "done" =>
            /\ outcome = "manifest_not_found"
            /\ fsops = <<<<"exists", <<"jobs", "j1", "output", "manifest.json">>, <<>>>>>>

(* runSocial was called for two platforms on a job without upstream manifest *)
C13_Witness ==
    /\ env.job = "no_manifest" /\ pc = "done" /\ Len(platforms) = 2
    /\ outcome = "manifest_not_found"

----------------------------------------------------------------------------
(* Outside the job directory jobs/j1 *)
Outside(path) == Len(path) < 2 \/ path[1] # "jobs" \/ path[2] # "j1"

(* The source images the upstream manifest names, resolved against output/ *)
SourcePaths ==
    {Resolve(<<"jobs", "j1", "output">>, MediaPairs(env.job)[m].before) :
        m \in DOMAIN MediaPairs(env.job)}
    \cup {Resolve(<<"jobs", "j1", "output">>, MediaPairs(env.job)[m].after) :
            m \in DOMAIN MediaPairs(env.job)}

(* C14: when the before or the after image path of the upstream manifest    *)
(* resolves outside the job directory, runSocial fails with the path-escape *)
(* error; no operation (existence test, read or write) ever touches a path  *)
(* outside the job directory, and no directory or file is created.          *)
C14_PathEscapeBeforeAccess ==
    (\E path \in SourcePaths : Outside(path)) =>
       /\ NothingCreated /\ NoPlatformProcessed
       /\ \A k \in DOMAIN fsops : ~Outside(fsops[k][2])
       /\ pc \in {"start", "done"}
       /\ pc = "done" => outcome = "path_escape"

(* The after image of the manifest points at ../../../etc/shadow and the    *)
(* call has failed after reading the manifest only                          *)
C14_Witness ==
    /\ env.job = "after_escape" /\ pc = "done" /\ outcome = "path_escape"
    /\ Len(fsops) = 2 /\ fsops[2][1] = "read"
    /\ <<"etc", "shadow">> \in SourcePaths

----------------------------------------------------------------------------
(* Vocabulary of the compositor claims *)

Half(n) == n \div 2

(* Both sources are at least as large as a pw x ph panel *)
SourcesCoverPanel(images, pw, ph) ==
    /\ images.before.w >= pw /\ images.before.h >= ph
    /\ images.after.w >= pw /\ images.after.h >= ph

PanelWOf(spec) == IF spec.layout = "side-by-side" THEN Half(spec.width) ELSE spec.width

PanelHOf(spec) == IF spec.layout = "side-by-side" THEN spec.height ELSE Half(spec.height)

InsideCanvas(r, w, h) ==
    r.left >= 0 /\ r.top >= 0 /\ r.left + r.width <= w /\ r.top + r.height <= h

Disjoint(r, q) ==
    \/ r.left + r.width <= q.left \/ q.left + q.width <= r.left
    \/ r.top + r.height <= q.top \/ q.top + q.height <= r.top

(* C15: for every registered platform spec and sources at least as large as *)
(* the panel, with or without crop advice, the composed image has exactly   *)
(* the width and height of the spec.                                        *)
C15_OutputHasSpecSize ==
    (/\ cpc = "composed" /\ cout.ok
     /\ \E p \in DOMAIN Registry : cin.spec = Registry[p]
     /\ SourcesCoverPanel(cin.images, PanelWOf(cin.spec), PanelHOf(cin.spec)))
    => cout.width = cin.spec.width /\ cout.height = cin.spec.height

(* The facebook spec composed from 1200x900 sources with crop advice *)
C15_Witness ==
    /\ cpc = "composed" /\ cout.ok
    /\ cin.spec.name = "facebook" /\ cin.advice.ok /\ cout.mode = "extract"
    /\ SourcesCoverPanel(cin.images, 1080, 675)
    /\ cout.width = 1080 /\ cout.height = 1350

(* C16: side-by-side panels are floor(width/2) x height with "before" at    *)
(* (0,0) and "after" at (panelWidth,0); stacked panels are width x          *)
(* floor(height/2) with "before" at (0,0) and "after" at (0,panelHeight);   *)
(* for every target size the two panels do not overlap and lie inside the   *)
(* canvas.                                                                  *)
C16_PanelGeometry ==
    (cpc = "composed" /\ cout.ok) =>
       LET w == cin.spec.width
           h == cin.spec.height
       IN /\ cin.spec.layout = "side-by-side" =>
               /\ cout.before = [left |-> 0, top |-> 0, width |-> Half(w), height |-> h]
               /\ cout.after = [left |-> Half(w), top |-> 0, width |-> Half(w), height |-> h]
          /\ cin.spec.layout = "stacked" =>
               /\ cout.before = [left |-> 0, top |-> 0, width |-> w, height |-> Half(h)]
               /\ cout.after = [left |-> 0, top |-> Half(h), width |-> w, height |-> Half(h)]
          /\ Disjoint(cout.before, cout.after)
          /\ InsideCanvas(cout.before, w, h)
          /\ InsideCanvas(cout.after, w, h)

(* A stacked target of odd height: the last pixel row belongs to no panel *)
C16_Witness ==
    /\ cpc = "composed" /\ cout.ok
    /\ cin.spec.layout = "stacked" /\ cin.spec.width = 2 /\ cin.spec.height = 3
    /\ cout.after.top = 1 /\ cout.after.height = 1

----------------------------------------------------------------------------
(* The step appends a platform manifest write to the operations *)
ManifestWrittenNow ==
    /\ Len(fsops') > Len(fsops)
    /\ fsops'[Len(fsops')][1] = "write"
    /\ fsops'[Len(fsops')][2] = ArtifactPath(platforms[idx], "manifest.json")

BlockWrittenNow ==
    \E b \in DOMAIN fsops'[Len(fsops')][3] : fsops'[Len(fsops')][3][b] = "transition"

GifWrittenNow ==
    \E k \in (Len(fsops) + 1)..Len(fsops') :
       fsops'[k][1] = "write" /\ fsops'[k][2] = ArtifactPath(platforms[idx], "transition.gif")

(* generateCrossfadeGif resolves in this step *)
GeneratorReturnsNow == pc = "gif" /\ pc' # "gif"

C17_Step ==
    /\ pc' = "gif" => env.gif
    /\ ~env.gif => ~GifWrittenNow /\ gifResult' = "none"
    /\ ManifestWrittenNow =>
          /\ BlockWrittenNow <=> (env.gif /\ GeneratorReturnsNow /\ gifResult' = "result")
          /\ BlockWrittenNow => GifWrittenNow
          /\ {<<platforms[idx], "image">>, <<platforms[idx], "caption">>} \subseteq files'
    /\ (GeneratorReturnsNow /\ gifResult' = "null") =>
          /\ ManifestWrittenNow /\ ~BlockWrittenNow
          /\ Len(results') = Len(results) + 1

(* C17: an iteration writes transition.gif and puts a transition block in   *)
(* its manifest exactly when WORKSHOT_SOCIAL_GIF is "1" and                 *)
(* generateCrossfadeGif returned a result. With the toggle unset the        *)
(* generator is never called and no transition.gif is written; with the     *)
(* toggle set and a null return the platform still completes with image,    *)
(* caption and a manifest without transition block.                         *)
C17_TransitionIffEnabledAndGenerated == [][C17_Step]_vars

(* Toggle set: the first platform got a transition, for the second the      *)
(* generator returned null and the platform completed without one           *)
C17_Witness ==
    /\ env.gif /\ pc = "done" /\ outcome = "returned" /\ Len(results) = 2
    /\ results[1].transition /\ ~results[2].transition
    /\ gifResult = "null"
    /\ Cardinality(ManifestWrites) = 2
    /\ \E k \in ManifestWrites : ~HasTransitionBlock(k)

----------------------------------------------------------------------------
(* Vocabulary of the crossfade claims *)

Settled == gpc = "settled"

(* C18: generateCrossfadeGif never throws. When the encoder cannot be       *)
(* loaded it returns null without reading the images or creating the output *)
(* file; when any later step (decode, encode, write, stat, metadata read)   *)
(* fails it returns null; only a call in which no step fails returns a      *)
(* result.                                                                  *)
C18_CrossfadeNeverThrows ==
    Settled =>
       /\ gout.value \in {"null", "result"}
       /\ gin.fail = "import" =>
             gout.value = "null" /\ ~gout.readImages /\ ~gout.wrote /\ gout.frames = <<>>
       /\ gin.fail \in {"decode", "encode", "write", "stat", "metadata"} => gout.value = "null"
       /\ gout.value = "result" <=> gin.fail = "none"

(* The encoder failed to load on a call with the default options *)
C18_Witness ==
    /\ Settled /\ gin.fail = "import" /\ gout.value = "null"
    /\ gin.options.frameCount = 20

----------------------------------------------------------------------------
(* The files of the base pipeline and the job inputs *)
UpstreamFiles ==
    {<<"jobs", "j1", "output", "manifest.json">>,
     <<"jobs", "j1", "output", "before_after.png">>,
     <<"jobs", "j1", "output", "caption.generic.txt">>,
     <<"jobs", "j1", "job.json">>,
     <<"jobs", "j1", "before.png">>,
     <<"jobs", "j1", "after.png">>}

InPlatformDir(path) ==
    /\ Len(path) = Len(SocialRoot) + 2
    /\ SubSeq(path, 1, Len(SocialRoot)) = SocialRoot
    /\ path[Len(SocialRoot) + 1] \in Named \cap DOMAIN Registry

(* C20: runSocial writes only inside output/social/<platform>/ for the      *)
(* platforms it was called with, and creates no directory but output/social *)
(* and those platform directories: the upstream manifest, the base          *)
(* composite and caption, job.json and the source images are never the      *)
(* target of a write, with the toggle on or off, whether the call succeeds  *)
(* or fails.                                                                *)
C20_WritesOnlyUnderSocial ==
    \A k \in DOMAIN fsops :
       /\ fsops[k][1] = "write" => InPlatformDir(fsops[k][2])
       /\ fsops[k][1] = "mkdir" =>
             \/ fsops[k][2] = SocialRoot
             \/ \E p \in Named \cap DOMAIN Registry : fsops[k][2] = SocialRoot \o <<p>>
       /\ Creates(k) => fsops[k][2] \notin UpstreamFiles

(* Toggle on: one platform completed with a transition, then the caption    *)
(* write of the next platform failed                                        *)
C20_Witness ==
    /\ env.gif /\ pc = "done" /\ outcome = "caption_failed"
    /\ Len(results) = 1 /\ results[1].transition
    /\ \E k \in DOMAIN fsops : fsops[k] = <<"read", <<"jobs", "j1", "output", "manifest.json">>, <<>>>>
    /\ Cardinality({k \in DOMAIN fsops : Creates(k)}) >= 7

----------------------------------------------------------------------------
(* Registry *)

Listed == getAvailablePlatforms

(* C21: a lookup succeeds exactly for the names the registry lists and     *)
(* returns the spec carrying the requested name; a lookup of any other     *)
(* name fails with the unknown-platform error for that name, listing all   *)
(* registered names; the startup validation rejects a configured list      *)
(* exactly when one of its names would fail the lookup.                    *)
C21_LookupMatchesListing ==
    lpc = "returned" =>
      LET a == lout.adapter
          v == lout.validation
      IN /\ ~a.threw <=> lin.name \in Listed
         /\ ~a.threw => a.spec.name = lin.name /\ a.spec = Registry[lin.name]
         /\ a.threw => a.unknown = lin.name /\ a.available = Listed
         /\ v.threw <=> \E i \in 1..Len(lin.list) : lin.list[i] \notin Listed
         /\ v.threw => v.available = Listed

C21_Witness ==
    /\ lpc = "returned"
    /\ lin.name = "myspace"
    /\ lout.adapter.threw
    /\ lout.adapter.available = {"nextdoor", "facebook"}
    /\ lin.list = <<"facebook">>
    /\ ~lout.validation.threw

----------------------------------------------------------------------------
(* Position of the first unregistered name of the list, 0 if there is none *)
FirstUnknown ==
    IF \E k \in 1..Len(platforms) : platforms[k] \notin Listed
    THEN CHOOSE k \in 1..Len(platforms) :
           /\ platforms[k] \notin Listed
           /\ \A j \in 1..(k - 1) : platforms[j] \in Listed
    ELSE 0

(* The j-th manifest write of the call, in order *)
NthManifest(j) ==
    CHOOSE k \in ManifestWrites : Cardinality({l \in ManifestWrites : l <= k}) = j

(* The platforms before position k are completely written, one after the   *)
(* other: image, caption and then the manifest of each                     *)
EarlierComplete(k) ==
    /\ Cardinality(ManifestWrites) = k - 1
    /\ \A j \in 1..(k - 1) :
         LET m == NthManifest(j)
             p == platforms[j]
         IN /\ PlatformOf(m) = p
            /\ WrittenBetween(PreviousManifest(m), m, ArtifactPath(p, "image.jpg"))
            /\ WrittenBetween(PreviousManifest(m), m, ArtifactPath(p, "caption.txt"))
            /\ Populated(p)

(* Nothing is created after the last complete platform, and nothing exists *)
(* for a name that first occurs at position k or later                     *)
NothingFrom(k) ==
    /\ \A l \in DOMAIN fsops :
         (Creates(l) /\ \A m \in ManifestWrites : m < l) =>
            (ManifestWrites = {} /\ fsops[l][2] = SocialRoot)
    /\ \A j \in k..Len(platforms) :
         (\A i \in 1..(k - 1) : platforms[i] # platforms[j]) =>
            ~\E f \in files : f[1] = platforms[j]

----------------------------------------------------------------------------
RunnerUntouched == pc = "uncalled" /\ fsops = <<>> /\ files = {}

(* C24: runBotSocial never throws. An empty platform list gives success    *)
(* with no outputs and touches no file; otherwise the promise resolves     *)
(* with success and the outputs of runSocial, or, for every error runSocial *)
(* raises, with success = false and that error's message.                  *)
C24_RunBotSocialNeverThrows ==
    /\ bout.settled # "rejected"
    /\ bpc = "returned" =>
         /\ bout.settled = "resolved"
         /\ platforms = <<>> =>
              bout.success /\ bout.outputs = <<>> /\ RunnerUntouched
         /\ platforms # <<>> =>
              /\ pc = "done"
              /\ outcome = "returned" =>
                   bout.success /\ bout.outputs = results /\ bout.error = ""
              /\ outcome # "returned" =>
                   ~bout.success /\ bout.outputs = <<>> /\ bout.error = outcome

C24_Witness ==
    /\ bpc = "returned"
    /\ platforms = <<"nextdoor", "myspace">>
    /\ outcome = "unknown_platform"
    /\ bout.settled = "resolved"
    /\ ~bout.success
    /\ bout.error = "unknown_platform"

----------------------------------------------------------------------------
Digest(bytes) == [of |-> bytes]

Describes(dir) ==
    /\ dir.image.present
    /\ dir.manifest.image = Digest(dir.image.bytes)
    /\ dir.manifest.hasTransition =>
         /\ dir.transition.present
         /\ dir.manifest.transition = Digest(dir.transition.bytes)

(* C29: after any sequence of runSocial calls on a job, successful or      *)
(* failed, every platform manifest.json on disk describes the files beside *)
(* it: its image digest is the digest of the platform's current image and  *)
(* its transition digest, when present, that of the current transition.gif *)
C29_ManifestDescribesFiles ==
    pc = "done" =>
       \A p \in DOMAIN disk : disk[p].manifest.present => Describes(disk[p])

----------------------------------------------------------------------------
(* The bot *)

Stuck(ss) == ss.state \in {"processing", "before_received"}

HasJob(ss) == ss.job \in JobIds

Restarted == ~up /\ up'

C22_Step ==
    Restarted =>
       /\ ~Stuck(session')
       /\ Stuck(session) => session'.state = "idle" /\ session'.job = 0
       /\ ~Stuck(session) => session' = session
       /\ (session.state = "processing" /\ HasJob(session)) =>
             /\ jobs[session.job].composite => jobs'[session.job].status = "processed"
             /\ ~jobs[session.job].composite => jobs'[session.job].status = "error"
       /\ (session.state = "before_received" /\ HasJob(session)) =>
             jobs'[session.job].status = "error"
       /\ \A j \in JobIds :
             /\ jobs'[j].composite = jobs[j].composite
             /\ (~Stuck(session) \/ j # session.job) => jobs'[j] = jobs[j]

(* C22: when reconcileOnStartup returns no session is processing or        *)
(* before_received: each such session is idle with no pending job; the job *)
(* of a formerly processing session is processed if its composite exists   *)
(* and error otherwise, the job of a formerly before_received session is   *)
(* error; idle sessions and all other jobs are unchanged.                  *)
C22_ReconcileClearsStuckSessions == [][C22_Step]_vars

C22_Witness ==
    /\ up
    /\ session.state = "idle" /\ session.job = 0
    /\ \E j \in JobIds :
          /\ jobs[j].status = "error"
          /\ jobs[j].error_msg = "Bot restarted during processing"

----------------------------------------------------------------------------
Redelivered ==
    /\ update' # update
    /\ update'.kind = "photo"
    /\ update'.id <= nmsgs

C23_Step == Redelivered => UNCHANGED <<session, jobs, nmsgs, handler, socialCalls>>

(* C23: delivering an inbound photo message (same chat, same message id)   *)
(* again changes no session row, no job row and no file, and starts no     *)
(* download and no pipeline run.                                           *)
C23_DuplicateDeliveryIgnored == [][C23_Step]_vars

C23_Witness ==
    /\ update.kind = "photo"
    /\ update.id < nmsgs
    /\ session.state = "before_received"
    /\ handler.at = "idle"

----------------------------------------------------------------------------
CancelTaken == update' # update /\ update'.kind = "cancel"

C26_Step ==
    CancelTaken =>
       /\ session.state = "before_received" =>
             /\ session'.state = "idle" /\ session'.job = 0
             /\ HasJob(session) =>
                  /\ jobs'[session.job].status = "error"
                  /\ jobs'[session.job].error_msg = "Cancelled by user"
             /\ \A j \in JobIds : j # session.job => jobs'[j] = jobs[j]
       /\ session.state \in {"none", "idle"} => UNCHANGED <<session, jobs>>

(* C26: /cancel in state before_received sets the pending job to error     *)
(* with the message "Cancelled by user" and returns the session to idle    *)
(* with no pending job; /cancel with no session or in state idle changes   *)
(* no session row and no job row.                                          *)
C26_CancelBeforeReceived == [][C26_Step]_vars

C26_Witness ==
    /\ update.kind = "cancel"
    /\ session.state = "idle" /\ session.job = 0
    /\ \E j \in JobIds : jobs[j].status = "error" /\ jobs[j].error_msg = "Cancelled by user"

----------------------------------------------------------------------------
Forward(old, new) ==
    \/ new = old
    \/ old = "absent" /\ new = "pending"
    \/ old = "pending" /\ new \in {"processing", "error"}
    \/ old = "processing" /\ new \in {"processed", "error"}

C28_Step == \A j \in JobIds : Forward(jobs[j].status, jobs'[j].status)

(* C28: a job's status only moves forward: pending, processing, then       *)
(* processed or error, or pending to error; once processed or error it     *)
(* never changes again, under every interleaving of the after-photo        *)
(* handler suspended at its download or pipeline await, the session        *)
(* timeout checker, /cancel and the reconciliation at startup.             *)
C28_StatusOnlyMovesForward == [][C28_Step]_vars

----------------------------------------------------------------------------
SocialConfigured == Len(config) > 0

HandedBack(j) == jobs[j].status = "processed" /\ jobs[j].sent

(* C25: with social platforms configured, social generation for a job      *)
(* starts after the pipeline has succeeded and the composite has been sent *)
(* back to the user, and not before: once the handler has finished such a  *)
(* job, runBotSocial has been called for it; it is called for no other     *)
(* job, and the job stays processed.                                       *)
C25_SocialStartsAfterSend ==
    \A j \in JobIds :
       /\ j \in socialCalls => HandedBack(j) /\ SocialConfigured
       /\ (SocialConfigured /\ HandedBack(j) /\ handler.job # j) => j \in socialCalls

----------------------------------------------------------------------------
AsIdle(st) == st \in {"none", "idle"}

PhotoArrives == update' # update /\ update'.kind = "photo" /\ update'.id > nmsgs

TimedOut == up /\ session.stale /\ UNCHANGED <<up, update, handler>>

HandlerEnds(ats) == handler.at \in ats /\ handler'.at = "idle" /\ up'

SessionMove ==
    LET old == session.state
        new == session'.state
    IN \/ new = old
       \/ AsIdle(old) /\ new = "idle"
       \/ /\ AsIdle(old) /\ new = "before_received"
          /\ HandlerEnds({"before_download"})
          /\ session'.job \in JobIds
          /\ jobs'[session'.job].status = "pending"
       \/ /\ old = "before_received" /\ new = "processing"
          /\ PhotoArrives
       \/ /\ old = "processing" /\ new = "idle"
          /\ \/ HandlerEnds({"send", "reply_error"})
             \/ HandlerEnds({"after_download"})
             \/ TimedOut
             \/ Restarted
       \/ /\ old = "before_received" /\ new = "idle"
          /\ \/ CancelTaken
             \/ TimedOut
             \/ Restarted

NewJobStarted ==
    \E j \in JobIds :
       /\ jobs[j].status = "absent"
       /\ jobs'[j].status = "pending"
       /\ handler'.job = j

C31_Step ==
    /\ SessionMove
    /\ (PhotoArrives /\ AsIdle(session.state)) => NewJobStarted

(* C31: the session state moves only from idle to before_received (when    *)
(* the before photo is downloaded, its job created), from before_received  *)
(* to processing (when the after photo arrives), from processing to idle   *)
(* (the handler finished, the download failed, the timeout, the            *)
(* reconciliation) and from before_received to idle (cancel, timeout,      *)
(* reconciliation); never from idle to processing; a new photo arriving    *)
(* while the session is idle starts a new job.                             *)
C31_SessionStateMachine == [][C31_Step]_vars

C31_Witness ==
    /\ session.state = "idle"
    /\ handler.at = "before_download"
    /\ handler.job = 2
    /\ jobs[2].status = "pending"
    /\ jobs[1].status = "error"

----------------------------------------------------------------------------
Arrives == update' # update

C32_Step ==
    (session.state = "processing" /\ Arrives) => session' = session /\ jobs' = jobs

(* C32: while the session is processing, a photo, an image document (with  *)
(* or without caption), a text message or /cancel changes neither the      *)
(* session row nor any job row.                                            *)
C32_ProcessingIgnoresInput == [][C32_Step]_vars

C32_Witness ==
    /\ up
    /\ session.state = "processing"
    /\ update.kind = "text"

----------------------------------------------------------------------------
Unfinished(j) == jobs[j].status \in {"pending", "processing"}

(* C33: when the reconciliation at startup has run, no job is pending or   *)
(* processing.                                                             *)
C33_NoJobLeftUnfinished == [][Restarted => \A j \in JobIds : ~Unfinished(j)']_vars

----------------------------------------------------------------------------
Busy == session.state \in {"before_received", "processing"}

Quiet(b) == update.seq = b

(* C34: a session in before_received or processing returns to idle, unless *)
(* a further message arrives from the user.                                *)
C34_BusySessionReturnsToIdle ==
    \A b \in {0, 1} : (Busy /\ Quiet(b)) ~> (session.state = "idle" \/ ~Quiet(b))

C34_Witness ==
    /\ up
    /\ session.state = "processing"
    /\ handler.at = "idle"
    /\ session.stale

----------------------------------------------------------------------------
(* C35: a session row has no pending job exactly when its state is idle.   *)
C35_PendingJobIffNotIdle ==
    session.state # "none" => (session.job = 0 <=> session.state = "idle")

C35_Witness ==
    /\ session.state = "before_received"
    /\ session.job # 0
    /\ update.kind = "text"
    /\ ~session.notes.null

----------------------------------------------------------------------------
Synced(ss, js) ==
    /\ ss.job \in JobIds
    /\ js[ss.job].service = ss.service
    /\ js[ss.job].notes = ss.notes

TextOrCaption ==
    \/ update' # update /\ update'.kind = "text"
    \/ PhotoArrives

C36_Step ==
    /\ (session'.state = "before_received" /\ handler'.at = "idle") => Synced(session', jobs')
    /\ (session.state = "before_received" /\ TextOrCaption) =>
          /\ jobs'[session.job].service = session'.service
          /\ jobs'[session.job].notes = session'.notes

(* C36: whenever the session is before_received and no handler is running, *)
(* the service and notes of its pending job equal the session's pending    *)
(* service and notes; a text message or a photo with caption received in   *)
(* that state leaves the two rows with the same service and notes.         *)
C36_MetadataInSync == [][C36_Step]_vars

C36_Witness ==
    /\ session.state = "before_received"
    /\ handler.at = "idle"
    /\ update.kind = "text"
    /\ session.service # DefaultService
    /\ Synced(session, jobs)

----------------------------------------------------------------------------
PanelSized(rect, spec) ==
    /\ rect.width = ComposerPanelWidth(spec)
    /\ rect.height = ComposerPanelHeight(spec)

(* C37: for every platform spec, the panel width and height runSocial      *)
(* hands to getSmartCrop are the ones composeSocialImage computes, and     *)
(* every crop rectangle the compositor is invoked with has exactly the     *)
(* compositor's panel size, so that the resize after the extraction keeps  *)
(* the size.                                                               *)
C37_PanelSizesAgree ==
    /\ \A spec \in ComposeSpecs :
          /\ PanelWidth(spec) = ComposerPanelWidth(spec)
          /\ PanelHeight(spec) = ComposerPanelHeight(spec)
    /\ \A i \in Iterations : \A n \in 1..Len(composed[i]) :
          composed[i][n].advice.ok =>
             /\ PanelSized(composed[i][n].advice.before, SpecOf(i))
             /\ PanelSized(composed[i][n].advice.after, SpecOf(i))

C37_Witness ==
    \E i \in Iterations :
      /\ Len(composed[i]) = 1
      /\ composed[i][1].mode = "extract"
      /\ platforms[i] = "facebook"

----------------------------------------------------------------------------
Between(x, a, b) == (a <= x /\ x <= b) \/ (b <= x /\ x <= a)

(* r is num/den rounded to the nearest integer, halves up *)
Nearest(r, num, den) == 2 * den * r <= 2 * num + den /\ 2 * num + den < 2 * den * (r + 1)

(* C38: with frameCount N, blended frame i (1..N) has blend factor         *)
(* i/(N+1), strictly between 0 and 1 and strictly increasing with i; its   *)
(* byte is before*(1-alpha) + after*alpha rounded to the nearest integer,  *)
(* which lies between the before byte and the after byte and in 0..255.    *)
C38_BlendFactorAndBytes ==
    (Settled /\ gin.fail \notin {"import", "decode"}) =>
       LET n == gin.options.frameCount
           b == gin.sample.before
           a == gin.sample.after
       IN \A i \in 1..n :
             LET f == gout.frames[i + 1]
             IN /\ f.alpha.den > 0
                /\ f.alpha.num * (n + 1) = i * f.alpha.den
                /\ 0 < f.alpha.num /\ f.alpha.num < f.alpha.den
                /\ i < n => f.alpha.num * gout.frames[i + 2].alpha.den
                               < gout.frames[i + 2].alpha.num * f.alpha.den
                /\ Nearest(f.byte, b * (n + 1 - i) + a * i, n + 1)
                /\ Between(f.byte, b, a)
                /\ f.byte \in 0..255

(* One blended frame between a 0 byte and a 1 byte: the half rounds up *)
C38_Witness ==
    /\ Settled /\ gout.value = "result"
    /\ gin.options.frameCount = 1
    /\ gin.sample.before = 0 /\ gin.sample.after = 1
    /\ gout.frames[2].byte = 1

----------------------------------------------------------------------------
(* One JSON object, and around it nothing that holds a brace *)
Wrapped(text) ==
    /\ Len(SelectSeq(text, LAMBDA ch : ch.c = "json")) = 1
    /\ \A n \in 1..Len(text) : text[n].c \in {"json", "prose", "fence"}

ObjectValid ==
    /\ RectValid(VObj.before, vin.bw, vin.bh, vin.pw, vin.ph)
    /\ RectValid(VObj.after, vin.aw, vin.ah, vin.pw, vin.ph)
    /\ AnchorPresent(VObj.before_trunk_base) =>
          AnchorValid(VObj.before_trunk_base, VObj.before, vin.bw, vin.bh)
    /\ AnchorPresent(VObj.after_trunk_base) =>
          AnchorValid(VObj.after_trunk_base, VObj.after, vin.aw, vin.ah)

(* C39: a response whose valid crop-advice object stands alone or between  *)
(* prose or code fences is accepted, with the rectangles of the object; a  *)
(* response that holds no JSON object, or in which the text from the first *)
(* "{" to the last "}" is more than the one object, gives null.            *)
C39_ExtractionTolerant ==
    Validated =>
       /\ (Wrapped(vin.text) /\ ObjectValid) =>
             /\ vout.ok
             /\ SameRect(vout.before, VObj.before)
             /\ SameRect(vout.after, VObj.after)
       /\ ~Wrapped(vin.text) => vout = NullResult

(* A valid object between two stretches of prose, accepted *)
C39_Witness ==
    /\ Validated
    /\ Len(vin.text) = 3
    /\ vin.text[1].c = "prose" /\ vin.text[2].c = "json" /\ vin.text[3].c = "prose"
    /\ vout.ok

====
